---- MODULE Spec2Model ----
(***************************************************************************)
(* Control plane of the AD9361 driver (src/ad9361/sw/ad9361.c): the enable *)
(* state machine (ENSM) facade, the guarded calibration bracket and the    *)
(* bounded calibration poll, the sample-rate planner, the clock nodes and  *)
(* the zero-run search.                                                    *)
(*                                                                         *)
(* Register values are sets of the bit names the source ORs together, so   *)
(* `val |= X` is a union and `val &= ~X` a set difference.  Every SPI       *)
(* access of a handler is appended to the transaction log `wlog` (a write  *)
(* with its value, a read with its register), which is reset when the next *)
(* handler starts; `last` records the call that produced it.  `calc` holds *)
(* the arguments and the result of the last clock computation (sample-rate *)
(* planner, clock-node call, zero-run search); `clk` is the clock node the *)
(* clock-node calls work on, with the register fields that hold its scale. *)
(***************************************************************************)
EXTENDS Integers, Sequences, FiniteSets, TLC

VARIABLES phy, regs, dev_ensm_state, wlog, last, cal, calc, clk

vars == <<phy, regs, dev_ensm_state, wlog, last, cal, calc, clk>>

----------------------------------------------------------------------------
(* Names                                                                   *)

\* Values of the 4-bit ENSM_STATE field of REG_STATE; code 0 is the wait state.
HwEnsmStates == {"SLEEP_WAIT", "ALERT", "TX", "TX_FLUSH", "RX", "RX_FLUSH",
                 "FDD", "FDD_FLUSH"}

\* The nine states of the facade: the hardware states and the software SLEEP.
EnsmStates == HwEnsmStates \cup {"SLEEP"}

\* ENSM states the hardware can be in for a duplex mode.
HwStatesOfMode(fdd) ==
    IF fdd THEN {"SLEEP_WAIT", "ALERT", "FDD", "FDD_FLUSH"}
           ELSE {"SLEEP_WAIT", "ALERT", "TX", "TX_FLUSH", "RX", "RX_FLUSH"}

OK == "OK"
EINVAL == "-EINVAL"
ETIMEDOUT == "-ETIMEDOUT"

IsErr(ret) == ret # OK

\* Registers whose value the modelled code reads back or a claim inspects.
TrackedRegs == {"REG_ENSM_CONFIG_1", "REG_CLOCK_ENABLE", "REG_RX_PFD_CONFIG",
                "REG_TX_PFD_CONFIG", "REG_SMALL_LMT_OVERLOAD_THRESH",
                "REG_DC_OFFSET_CONFIG2", "REG_CALIBRATION_CONFIG_1",
                "REG_RX_QUAD_GAIN2"}

ForceBits == {"FORCE_TX_ON", "FORCE_RX_ON"}
AlertBits == {"TO_ALERT", "FORCE_ALERT_STATE"}

----------------------------------------------------------------------------
(* The ENSM hardware as the driver drives it                               *)

\* State the ENSM settles in after REG_ENSM_CONFIG_1 is written with val while
\* it is in state cur: the force bits select TX/RX/FDD, FORCE_ALERT_STATE
\* moves it to ALERT, TO_ALERT keeps or returns it to ALERT after a flush, and
\* a value with none of them moves it to the wait state.
HwEnsm(val, cur, fdd) ==
    IF val \cap ForceBits # {}
    THEN IF fdd \/ ForceBits \subseteq val THEN "FDD"
         ELSE IF "FORCE_TX_ON" \in val THEN "TX" ELSE "RX"
    ELSE IF "FORCE_ALERT_STATE" \in val THEN "ALERT"
    ELSE IF "TO_ALERT" \in val /\ cur # "SLEEP_WAIT" THEN "ALERT"
    ELSE "SLEEP_WAIT"

\* Effect of a register write on the ENSM: it follows REG_ENSM_CONFIG_1 while
\* the clocks run, and reads back 0 once REG_CLOCK_ENABLE is cleared.
HwAfterWrite(m, reg, val) ==
    IF reg = "REG_CLOCK_ENABLE" /\ val = {} THEN "SLEEP_WAIT"
    ELSE IF reg = "REG_ENSM_CONFIG_1" /\ m.regs["REG_CLOCK_ENABLE"] # {}
         THEN HwEnsm(val, m.hw, m.phy.pdata.fdd)
    ELSE m.hw

----------------------------------------------------------------------------
(* Register access                                                         *)

\* ad9361_spi_write
SpiWrite(m, reg, val) ==
    [m EXCEPT !.regs = IF reg \in DOMAIN @ THEN [@ EXCEPT ![reg] = val] ELSE @,
              !.log  = Append(@, <<"w", reg, val>>),
              !.hw   = HwAfterWrite(m, reg, val)]

\* ad9361_spi_read: the value is m.regs[reg]; the access is logged.
SpiRead(m, reg) ==
    [m EXCEPT !.log = Append(@, <<"r", reg, {}>>)]

\* ad9361_spi_readf(spi, REG_STATE, ENSM_STATE(~0))
SpiReadState(m) ==
    [m EXCEPT !.log = Append(@, <<"r", "REG_STATE", {}>>)]

\* ad9361_spi_writef for a one-bit field: read, modify, write.
SpiWritef(m, reg, bit, on) ==
    LET m1 == SpiRead(m, reg)
        buf == IF on THEN m.regs[reg] \cup {bit} ELSE m.regs[reg] \ {bit}
    IN  SpiWrite(m1, reg, buf)

\* udelay: no register access; logged so that the order of a delay is visible.
Udelay(m, what) == [m EXCEPT !.log = Append(@, <<"d", "udelay", {what}>>)]

----------------------------------------------------------------------------
(* ad9361_tracking_control, ad9361_trx_vco_cal_control                     *)

\* TrackingControl with the quadrature tracking of channel 1 always enabled.
TrackingControlQuadOn(m, bbdc_track, rfdc_track, rxquad_track) ==
    LET m1 == SpiWrite(m, "REG_CALIBRATION_CONFIG_2",
                       {"CALIBRATION_CONFIG2_DFLT", "K_EXP_PHASE(0x15)"})
        m2 == SpiWrite(m1, "REG_CALIBRATION_CONFIG_3",
                       {"PREVENT_POS_LOOP_GAIN", "K_EXP_AMPLITUDE(0x15)"})
        m3 == SpiWrite(m2, "REG_DC_OFFSET_CONFIG2",
                       {"USE_WAIT_COUNTER_FOR_RF_DC_INIT_CAL",
                        "DC_OFFSET_UPDATE(dc_offset_update_events)"}
                       \cup (IF bbdc_track THEN {"ENABLE_BB_DC_OFFSET_TRACKING"} ELSE {})
                       \cup (IF rfdc_track THEN {"ENABLE_RF_OFFSET_TRACKING"} ELSE {}))
        m4 == SpiWritef(m3, "REG_RX_QUAD_GAIN2", "CORRECTION_WORD_DECIMATION_M(4)",
                        m.phy.pdata.qec_tracking_slow_mode_en)
        m5 == SpiWrite(m4, "REG_CALIBRATION_CONFIG_1",
                       {"ENABLE_PHASE_CORR", "ENABLE_GAIN_CORR", "FREE_RUN_MODE",
                        "ENABLE_CORR_WORD_DECIMATION", "ENABLE_TRACKING_MODE_CH1"})
    IN  [m5 EXCEPT !.ret = OK]

TrackingControl(m, bbdc_track, rfdc_track, rxquad_track) ==
    LET m1 == SpiWrite(m, "REG_CALIBRATION_CONFIG_2",
                       {"CALIBRATION_CONFIG2_DFLT", "K_EXP_PHASE(0x15)"})
        m2 == SpiWrite(m1, "REG_CALIBRATION_CONFIG_3",
                       {"PREVENT_POS_LOOP_GAIN", "K_EXP_AMPLITUDE(0x15)"})
        m3 == SpiWrite(m2, "REG_DC_OFFSET_CONFIG2",
                       {"USE_WAIT_COUNTER_FOR_RF_DC_INIT_CAL",
                        "DC_OFFSET_UPDATE(dc_offset_update_events)"}
                       \cup (IF bbdc_track THEN {"ENABLE_BB_DC_OFFSET_TRACKING"} ELSE {})
                       \cup (IF rfdc_track THEN {"ENABLE_RF_OFFSET_TRACKING"} ELSE {}))
        m4 == SpiWritef(m3, "REG_RX_QUAD_GAIN2", "CORRECTION_WORD_DECIMATION_M(4)",
                        m.phy.pdata.qec_tracking_slow_mode_en)
        qtrack == IF rxquad_track
                  THEN {"ENABLE_TRACKING_MODE_CH1"}
                       \cup (IF m.phy.pdata.rx2tx2 THEN {"ENABLE_TRACKING_MODE_CH2"} ELSE {})
                  ELSE {}
        m5 == SpiWrite(m4, "REG_CALIBRATION_CONFIG_1",
                       {"ENABLE_PHASE_CORR", "ENABLE_GAIN_CORR", "FREE_RUN_MODE",
                        "ENABLE_CORR_WORD_DECIMATION"} \cup qtrack)
    IN  [m5 EXCEPT !.ret = OK]

TrxVcoCalControl(m, tx, enable) ==
    SpiWritef(m, IF tx THEN "REG_TX_PFD_CONFIG" ELSE "REG_RX_PFD_CONFIG",
              "BYPASS_LD_SYNTH", ~enable)

----------------------------------------------------------------------------
(* ad9361_ensm_force_state, ad9361_ensm_restore_prev_state                 *)

\* The case labels of the switch in force_state and restore_prev_state.
ForceHandled == {"TX", "RX", "FDD", "ALERT"}

\* switch (ensm_state) of ad9361_ensm_force_state, applied to val.
ForceVal(val, ensm_state) ==
    CASE ensm_state = "TX"    -> val \cup {"FORCE_TX_ON"}
      [] ensm_state = "RX"    -> val \cup {"FORCE_RX_ON"}
      [] ensm_state = "FDD"   -> val \cup {"FORCE_TX_ON", "FORCE_RX_ON"}
      [] ensm_state = "ALERT" -> (val \ {"FORCE_TX_ON", "FORCE_RX_ON"})
                                 \cup {"TO_ALERT", "FORCE_ALERT_STATE"}
      [] OTHER                -> val

\* EnsmForceState without the exit taken when the device is already in the
\* requested state.
EnsmForceStateNoEarlyOut(m, ensm_state) ==
    LET dev_state == m.hw
        m1   == [SpiReadState(m) EXCEPT !.phy.prev_ensm_state = dev_state]
        val0 == m.regs["REG_ENSM_CONFIG_1"]
        m2   == [SpiRead(m1, "REG_ENSM_CONFIG_1")
                   EXCEPT !.phy.ensm_pin_ctl_en = ("ENABLE_ENSM_PIN_CTRL" \in val0)]
        val1 == val0 \ {"ENABLE_ENSM_PIN_CTRL"}
        val2 == IF dev_state # "SLEEP_WAIT" THEN val1 \ {"TO_ALERT"} ELSE val1
        val3 == ForceVal(val2, ensm_state)
    IN  IF ensm_state \notin ForceHandled THEN m2
        ELSE SpiWrite(SpiWrite(m2, "REG_ENSM_CONFIG_1",
                               {"TO_ALERT", "FORCE_ALERT_STATE"}),
                      "REG_ENSM_CONFIG_1", val3)

EnsmForceState(m, ensm_state) ==
    LET dev_state == m.hw
        m1   == [SpiReadState(m) EXCEPT !.phy.prev_ensm_state = dev_state]
        val0 == m.regs["REG_ENSM_CONFIG_1"]
        m2   == [SpiRead(m1, "REG_ENSM_CONFIG_1")
                   EXCEPT !.phy.ensm_pin_ctl_en = ("ENABLE_ENSM_PIN_CTRL" \in val0)]
        val1 == val0 \ {"ENABLE_ENSM_PIN_CTRL"}
        val2 == IF dev_state # "SLEEP_WAIT" THEN val1 \ {"TO_ALERT"} ELSE val1
        val3 == ForceVal(val2, ensm_state)
    IN  IF dev_state = ensm_state THEN m1
        ELSE IF ensm_state \notin ForceHandled THEN m2
        ELSE SpiWrite(SpiWrite(m2, "REG_ENSM_CONFIG_1",
                               {"TO_ALERT", "FORCE_ALERT_STATE"}),
                      "REG_ENSM_CONFIG_1", val3)

\* RestoreVal with the RX case lost, so that RX falls into the default.
RestoreValNoRx(val, prev) ==
    CASE prev = "TX"    -> val \cup {"FORCE_TX_ON"}
      [] prev = "FDD"   -> val \cup {"FORCE_TX_ON", "FORCE_RX_ON"}
      [] prev = "ALERT" -> val \cup {"TO_ALERT"}
      [] OTHER          -> val

\* switch (phy->prev_ensm_state) of ad9361_ensm_restore_prev_state.
RestoreVal(val, prev) ==
    CASE prev = "TX"    -> val \cup {"FORCE_TX_ON"}
      [] prev = "RX"    -> val \cup {"FORCE_RX_ON"}
      [] prev = "FDD"   -> val \cup {"FORCE_TX_ON", "FORCE_RX_ON"}
      [] prev = "ALERT" -> val \cup {"TO_ALERT"}
      [] OTHER          -> val

\* The write of ENABLE_ENSM_PIN_CTRL that ends restore_prev_state.
RestorePinCtl(m, val) ==
    IF m.phy.ensm_pin_ctl_en
    THEN SpiWrite(m, "REG_ENSM_CONFIG_1", val \cup {"ENABLE_ENSM_PIN_CTRL"})
    ELSE m

EnsmRestorePrevState(m) ==
    LET m1   == SpiRead(m, "REG_ENSM_CONFIG_1")
        val0 == m.regs["REG_ENSM_CONFIG_1"]
                   \ {"FORCE_TX_ON", "FORCE_RX_ON", "TO_ALERT", "FORCE_ALERT_STATE"}
        prev == m.phy.prev_ensm_state
        val1 == RestoreVal(val0, prev)
        m2   == SpiWrite(SpiWrite(m1, "REG_ENSM_CONFIG_1",
                                  {"TO_ALERT", "FORCE_ALERT_STATE"}),
                         "REG_ENSM_CONFIG_1", val1)
    IN  IF prev \notin ForceHandled THEN m1
        ELSE RestorePinCtl(m2, val1)

----------------------------------------------------------------------------
(* ad9361_ensm_set_state                                                   *)

\* The states with a case label in the switch of ad9361_ensm_set_state.
SetStateHandled == {"TX", "RX", "FDD", "ALERT", "SLEEP_WAIT", "SLEEP"}

ClockEnableVal(m) ==
    {"DIGITAL_POWER_UP", "CLOCK_ENABLE_DFLT", "BBPLL_ENABLE"}
    \cup (IF m.phy.pdata.use_extclk THEN {"XO_BYPASS"} ELSE {})

\* SetStateWake with the transmit synthesizer's VCO calibration left bypassed.
SetStateWakeRxVcoOnly(m) ==
    IF m.phy.curr_ensm_state = "SLEEP"
    THEN LET m1 == SpiWrite(m, "REG_CLOCK_ENABLE", ClockEnableVal(m))
             m2 == Udelay(m1, "20")
             m3 == SpiWrite(m2, "REG_ENSM_CONFIG_1", {"TO_ALERT", "FORCE_ALERT_STATE"})
         IN  TrxVcoCalControl(m3, FALSE, TRUE)
    ELSE m

\* if (phy->curr_ensm_state == ENSM_STATE_SLEEP) { ... }
SetStateWake(m) ==
    IF m.phy.curr_ensm_state = "SLEEP"
    THEN LET m1 == SpiWrite(m, "REG_CLOCK_ENABLE", ClockEnableVal(m))
             m2 == Udelay(m1, "20")
             m3 == SpiWrite(m2, "REG_ENSM_CONFIG_1", {"TO_ALERT", "FORCE_ALERT_STATE"})
             m4 == TrxVcoCalControl(m3, FALSE, TRUE)
         IN  TrxVcoCalControl(m4, TRUE, TRUE)
    ELSE m

\* val as initialised before the switch.
SetStateBaseVal(m, pinctrl) ==
    (IF m.phy.pdata.ensm_pin_pulse_mode THEN {} ELSE {"LEVEL_MODE"})
    \cup (IF pinctrl THEN {"ENABLE_ENSM_PIN_CTRL"} ELSE {})
    \cup (IF m.phy.txmon_tdd_en THEN {"ENABLE_RX_DATA_PORT_FOR_CAL"} ELSE {})
    \cup {"TO_ALERT"}

\* SetStateVal with the ALERT case sharing the statement of the RX case.
SetStateValAlertAsRx(val, ensm_state) ==
    CASE ensm_state = "TX"    -> val \cup {"FORCE_TX_ON"}
      [] ensm_state = "RX"    -> val \cup {"FORCE_RX_ON"}
      [] ensm_state = "FDD"   -> val \cup {"FORCE_TX_ON", "FORCE_RX_ON"}
      [] ensm_state = "ALERT" -> val \cup {"FORCE_RX_ON", "TO_ALERT", "FORCE_ALERT_STATE"}
      [] OTHER                -> val

\* val after the switch, for the cases that fall through to the write.
SetStateVal(val, ensm_state) ==
    CASE ensm_state = "TX"    -> val \cup {"FORCE_TX_ON"}
      [] ensm_state = "RX"    -> val \cup {"FORCE_RX_ON"}
      [] ensm_state = "FDD"   -> val \cup {"FORCE_TX_ON", "FORCE_RX_ON"}
      [] ensm_state = "ALERT" -> (val \ {"FORCE_TX_ON", "FORCE_RX_ON"})
                                 \cup {"TO_ALERT", "FORCE_ALERT_STATE"}
      [] OTHER                -> val

\* SetStateRc without the `else if (curr_ensm_state != ENSM_STATE_ALERT)` arm.
SetStateRcNoAlertCheck(m, ensm_state) ==
    CASE ensm_state \in {"TX", "RX"} -> IF m.phy.pdata.fdd THEN EINVAL ELSE OK
      [] ensm_state = "FDD" -> IF ~m.phy.pdata.fdd THEN EINVAL ELSE OK
      [] OTHER -> OK

\* SetStateRc with the FDD case testing nothing.
SetStateRcFddUnchecked(m, ensm_state) ==
    CASE ensm_state \in {"TX", "RX"} ->
            IF m.phy.pdata.fdd THEN EINVAL
            ELSE IF m.phy.curr_ensm_state # "ALERT" THEN EINVAL
            ELSE OK
      [] OTHER -> OK

\* rc as the switch sets it: the legality of the transition.
SetStateRc(m, ensm_state) ==
    CASE ensm_state \in {"TX", "RX"} ->
            IF m.phy.pdata.fdd THEN EINVAL
            ELSE IF m.phy.curr_ensm_state # "ALERT" THEN EINVAL
            ELSE OK
      [] ensm_state = "FDD" -> IF ~m.phy.pdata.fdd THEN EINVAL ELSE OK
      [] OTHER -> OK

\* SetStateSleep with the clocks gated off before the flush.
SetStateSleepClocksFirst(m) ==
    LET m1 == TrxVcoCalControl(m, FALSE, FALSE)
        m2 == TrxVcoCalControl(m1, TRUE, FALSE)
        m3 == SpiWrite(m2, "REG_CLOCK_ENABLE", {})
        m4 == SpiWrite(m3, "REG_ENSM_CONFIG_1", {})
        m5 == SpiWrite(m4, "REG_ENSM_CONFIG_1",
                       IF m.phy.pdata.fdd THEN {"FORCE_TX_ON"} ELSE {"FORCE_RX_ON"})
        m6 == Udelay(m5, "384000000/ADC_CLK")
        m7 == SpiWrite(m6, "REG_ENSM_CONFIG_1", {})
        m8 == Udelay(m7, "1")
    IN  [m8 EXCEPT !.phy.curr_ensm_state = "SLEEP", !.ret = OK]

\* case ENSM_STATE_SLEEP
SetStateSleep(m) ==
    LET m1 == TrxVcoCalControl(m, FALSE, FALSE)
        m2 == TrxVcoCalControl(m1, TRUE, FALSE)
        m3 == SpiWrite(m2, "REG_ENSM_CONFIG_1", {})
        m4 == SpiWrite(m3, "REG_ENSM_CONFIG_1",
                       IF m.phy.pdata.fdd THEN {"FORCE_TX_ON"} ELSE {"FORCE_RX_ON"})
        m5 == Udelay(m4, "384000000/ADC_CLK")
        m6 == SpiWrite(m5, "REG_ENSM_CONFIG_1", {})
        m7 == Udelay(m6, "1")
        m8 == SpiWrite(m7, "REG_CLOCK_ENABLE", {})
    IN  [m8 EXCEPT !.phy.curr_ensm_state = "SLEEP", !.ret = OK]

\* The gain-path reset pulse after a configuration with FORCE_RX_ON.
\* SetStateMgcResetBoth resets both chains whichever is in manual-gain mode.
SetStateMgcResetBoth(m, val) ==
    LET mgc1 == m.phy.agc_mode[1] = "RF_GAIN_MGC"
        mgc2 == m.phy.agc_mode[2] = "RF_GAIN_MGC"
        tmp  == m.regs["REG_SMALL_LMT_OVERLOAD_THRESH"]
        keep == tmp \cap {"SMALL_LMT_OVERLOAD_THRESH"}
    IN  IF "FORCE_RX_ON" \in val /\ (mgc1 \/ mgc2)
        THEN LET m1 == SpiRead(m, "REG_SMALL_LMT_OVERLOAD_THRESH")
                 m2 == SpiWrite(m1, "REG_SMALL_LMT_OVERLOAD_THRESH",
                         keep \cup {"FORCE_PD_RESET_RX1", "FORCE_PD_RESET_RX2"})
             IN  SpiWrite(m2, "REG_SMALL_LMT_OVERLOAD_THRESH", keep)
        ELSE m

\* if ((val & FORCE_RX_ON) && (agc_mode[0] == RF_GAIN_MGC || ...)) { ... }
SetStateMgcReset(m, val) ==
    LET mgc1 == m.phy.agc_mode[1] = "RF_GAIN_MGC"
        mgc2 == m.phy.agc_mode[2] = "RF_GAIN_MGC"
        tmp  == m.regs["REG_SMALL_LMT_OVERLOAD_THRESH"]
        keep == tmp \cap {"SMALL_LMT_OVERLOAD_THRESH"}
    IN  IF "FORCE_RX_ON" \in val /\ (mgc1 \/ mgc2)
        THEN LET m1 == SpiRead(m, "REG_SMALL_LMT_OVERLOAD_THRESH")
                 m2 == SpiWrite(m1, "REG_SMALL_LMT_OVERLOAD_THRESH",
                         keep \cup (IF mgc1 THEN {"FORCE_PD_RESET_RX1"} ELSE {})
                              \cup (IF mgc2 THEN {"FORCE_PD_RESET_RX2"} ELSE {}))
             IN  SpiWrite(m2, "REG_SMALL_LMT_OVERLOAD_THRESH", keep)
        ELSE m

EnsmSetState(m, ensm_state, pinctrl) ==
    LET m1  == SetStateWake(m)
        val == SetStateVal(SetStateBaseVal(m, pinctrl), ensm_state)
        rc  == SetStateRc(m, ensm_state)
        m2  == SpiWrite(m1, "REG_ENSM_CONFIG_1", val)
        m3  == SetStateMgcReset(m2, val)
    IN  IF ensm_state = "SLEEP" THEN SetStateSleep(m1)
        ELSE IF ensm_state \notin SetStateHandled THEN [m1 EXCEPT !.ret = OK]
        ELSE IF IsErr(rc) THEN [m1 EXCEPT !.ret = rc]
        ELSE [m3 EXCEPT !.phy.curr_ensm_state = ensm_state, !.ret = OK]

----------------------------------------------------------------------------
(* Calibrations run inside the guarded bracket                             *)

\* ad9361_check_cal_done as one step: `done` says whether the polled bit
\* reaches done_state within the poll budget (the loop itself is CalPoll).
CheckCalDone(m, reg, mask, done) ==
    IF done
    THEN [m EXCEPT !.log = Append(@, <<"r", reg, {}>>), !.ret = OK]
    ELSE [m EXCEPT !.log = Append(@, <<"r", reg, {}>>), !.ret = ETIMEDOUT]

\* ad9361_run_calibration
RunCalibration(m, mask, done) ==
    CheckCalDone(SpiWrite(m, "REG_CALIBRATION_CTRL", {mask}),
                 "REG_CALIBRATION_CTRL", {mask}, done)

\* ad9361_rf_dc_offset_calib; rx_low is rx_freq <= 4000000000.
RfDcOffsetCalib(m, rx_low, done) ==
    LET m1 == SpiWrite(m, "REG_WAIT_COUNT", {"0x20"})
        m2 == SpiWrite(m1, "REG_RF_DC_OFFSET_COUNT",
                 {IF rx_low THEN "rf_dc_offset_count_low" ELSE "rf_dc_offset_count_high"})
        m3 == SpiWrite(m2, "REG_RF_DC_OFFSET_CONFIG_1",
                 {"RF_DC_CALIBRATION_COUNT(4)", IF rx_low THEN "DAC_FS(2)" ELSE "DAC_FS(3)"})
        m4 == SpiWrite(m3, "REG_RF_DC_OFFSET_ATTEN",
                 {IF rx_low THEN "dc_offset_attenuation_low" ELSE "dc_offset_attenuation_high"})
        m5 == SpiWrite(m4, "REG_DC_OFFSET_CONFIG2",
                 {"USE_WAIT_COUNTER_FOR_RF_DC_INIT_CAL", "DC_OFFSET_UPDATE(3)"})
        m6 == SpiWrite(m5, "REG_INVERT_BITS",
                 IF m.phy.pdata.rx1rx2_phase_inversion_en
                 THEN {"INVERT_RX1_RF_DC_CGOUT_WORD"}
                 ELSE {"INVERT_RX1_RF_DC_CGOUT_WORD", "INVERT_RX2_RF_DC_CGOUT_WORD"})
    IN  RunCalibration(m6, "RFDC_CAL", done)

\* __ad9361_update_rf_bandwidth: the two filter calibrations that arm the
\* calibration engine; bw names the first one that times out, or "ok".
UpdateRfBandwidthCalibs(m, bw) ==
    LET m1 == RunCalibration(m, "RX_BB_TUNE_CAL", bw # "rx_timeout")
        m2 == RunCalibration(m1, "TX_BB_TUNE_CAL", bw # "tx_timeout")
    IN  IF IsErr(m1.ret) THEN m1 ELSE m2

\* ad9361_tx_quad_phase_search, by its outcome: "ok", a timeout inside the
\* scan of the offsets, or a timeout of the confirming run.
TxQuadPhaseSearch(m, search) ==
    LET m1 == SpiWrite(m, "REG_QUAD_CAL_NCO_FREQ_PHASE_OFFSET", {"RX_NCO_PHASE_OFFSET(i)"})
        m2 == RunCalibration(m1, "TX_QUAD_CAL", search # "scan_timeout")
        m3 == SpiWrite(m2, "REG_QUAD_CAL_NCO_FREQ_PHASE_OFFSET", {"RX_NCO_PHASE_OFFSET(opt)"})
        m4 == RunCalibration(m3, "TX_QUAD_CAL", TRUE)
        m5 == RunCalibration(m4, "TX_QUAD_CAL", search # "confirm_timeout")
    IN  IF IsErr(m2.ret) THEN m2 ELSE m5

\* ad9361_tx_quad_calib.  q.widen: the calibration tone needs a wider filter
\* (txnco_freq > bw/4); q.bw, q.run1, q.conv, q.search: what the hardware does.
TxQuadCalib(m, q) ==
    LET m1 == IF q.widen THEN UpdateRfBandwidthCalibs(m, q.bw) ELSE [m EXCEPT !.ret = OK]
        m2 == SpiWrite(m1, "REG_QUAD_CAL_NCO_FREQ_PHASE_OFFSET", {"RX_NCO_PHASE_OFFSET(rx_phase)"})
        m3 == SpiWrite(m2, "REG_QUAD_CAL_CTRL",
                 {"SETTLE_MAIN_ENABLE", "DC_OFFSET_ENABLE", "GAIN_ENABLE",
                  "PHASE_ENABLE", "M_DECIM(3)"})
        m4 == RunCalibration(m3, "TX_QUAD_CAL", q.run1)
        m5 == [m4 EXCEPT !.log = Append(@, <<"r", "REG_QUAD_CAL_STATUS_TX1", {}>>)]
        m6 == IF ~q.conv THEN TxQuadPhaseSearch(m5, q.search) ELSE m5
        m7 == IF q.widen
              THEN [UpdateRfBandwidthCalibs(m6, "ok") EXCEPT !.ret = m6.ret]
              ELSE m6
    IN  IF IsErr(m1.ret) THEN m1 ELSE m7

----------------------------------------------------------------------------
(* ad9361_do_calib_run                                                     *)

\* The switch (cal) of ad9361_do_calib_run.
CalibDispatch(m, q) ==
    CASE q.cal = "TX_QUAD_CAL" -> TxQuadCalib(m, q)
      [] q.cal = "RFDC_CAL"    -> RfDcOffsetCalib(m, q.rx_low, q.done)
      [] OTHER                 -> [m EXCEPT !.ret = EINVAL]

\* The value ad9361_do_calib_run returns: ret as last assigned.
CalibRunRet(dispatch_ret, tracking_ret) == tracking_ret

\* DoCalibRun returning as soon as the dispatched calibration fails.
DoCalibRunEarlyReturn(m, q) ==
    LET m1 == TrackingControl(m, FALSE, FALSE, FALSE)
        m2 == EnsmForceState(m1, "ALERT")
        m3 == CalibDispatch(m2, q)
        m4 == TrackingControl(m3, m.phy.bbdc_track_en, m.phy.rfdc_track_en,
                              m.phy.quad_track_en)
        m5 == EnsmRestorePrevState(m4)
    IN  IF IsErr(m3.ret) THEN m3
        ELSE [m5 EXCEPT !.ret = CalibRunRet(m3.ret, m4.ret)]

DoCalibRun(m, q) ==
    LET m1 == TrackingControl(m, FALSE, FALSE, FALSE)
        m2 == EnsmForceState(m1, "ALERT")
        m3 == CalibDispatch(m2, q)
        m4 == TrackingControl(m3, m.phy.bbdc_track_en, m.phy.rfdc_track_en,
                              m.phy.quad_track_en)
        m5 == EnsmRestorePrevState(m4)
    IN  IF IsErr(m1.ret) THEN m1
        ELSE [m5 EXCEPT !.ret = CalibRunRet(m3.ret, m4.ret)]

----------------------------------------------------------------------------
(* The poll loop of ad9361_check_cal_done, one poll per step               *)

\* uint32_t timeout = 5000
CalTimeout == 5000

\* A poll loop whose test never fails.
CalLoopAgainForever(timeout) == TRUE

\* `while (timeout--)`: the test sees the value before the decrement.
CalLoopAgain(timeout) == timeout # 0

CalIdle == [pc |-> "idle", reg |-> "", mask |-> "", timeout |-> 0, polls |-> 0,
            ret |-> OK]

\* Masks ad9361_run_calibration is called with.
CalMasks == {"RX_BB_TUNE_CAL", "TX_BB_TUNE_CAL", "TX_QUAD_CAL", "RFDC_CAL",
             "BBDC_CAL", "TXMON_CAL"}

----------------------------------------------------------------------------
(* State                                                                   *)

\* Platform data of a board: the duplex mode, and the options in profile b.
Pdata(f, b) ==
    [fdd |-> f, ensm_pin_ctrl |-> b, ensm_pin_pulse_mode |-> b,
     use_extclk |-> b, rx2tx2 |-> ~b, qec_tracking_slow_mode_en |-> b,
     rx1rx2_phase_inversion_en |-> b]

MGC == "RF_GAIN_MGC"
AGC == "RF_GAIN_SLOWATTACK_AGC"

\* The configurations the model starts from: both duplex modes with both
\* option profiles, every gain-control pattern of the two receive chains and
\* every tracking enable in both settings.
Configs ==
    { [pd |-> Pdata(c[1], c[2]), agc |-> c[3], trk |-> c[4]] :
        c \in { <<TRUE,  FALSE, <<MGC, MGC>>, <<TRUE,  TRUE,  TRUE>> >>,
                <<FALSE, TRUE,  <<MGC, AGC>>, <<TRUE,  FALSE, TRUE>> >>,
                <<TRUE,  TRUE,  <<AGC, MGC>>, <<FALSE, TRUE,  FALSE>> >>,
                <<FALSE, FALSE, <<AGC, AGC>>, <<FALSE, FALSE, FALSE>> >> } }

\* ad9361_clear_state, with the tracking enables and gain-control modes the
\* API has configured since.  last_tx_quad_cal_freq is a 64-bit value, kept
\* as its 16 hexadecimal digits, lowest first.
PhyInit(pd, agc, trk) ==
    [pdata |-> pd,
     curr_ensm_state |-> "SLEEP_WAIT",
     prev_ensm_state |-> "SLEEP_WAIT",
     ensm_pin_ctl_en |-> FALSE,
     txmon_tdd_en    |-> FALSE,
     bbdc_track_en   |-> trk[1],
     rfdc_track_en   |-> trk[2],
     quad_track_en   |-> trk[3],
     agc_mode        |-> agc,
     auto_cal_en     |-> FALSE,
     last_tx_quad_cal_freq |-> [i \in 1..16 |-> 0],
     cal_threshold_freq    |-> 0]

\* The registers as ad9361_setup leaves them before its final set_state.
RegsInit(pd) ==
    [r \in TrackedRegs |->
        CASE r = "REG_ENSM_CONFIG_1" -> {"FORCE_ALERT_STATE", "TO_ALERT"}
          [] r = "REG_CLOCK_ENABLE"  ->
                {"DIGITAL_POWER_UP", "CLOCK_ENABLE_DFLT", "BBPLL_ENABLE"}
                \cup (IF pd.use_extclk THEN {"XO_BYPASS"} ELSE {})
          [] r = "REG_SMALL_LMT_OVERLOAD_THRESH" -> {"SMALL_LMT_OVERLOAD_THRESH"}
          [] OTHER -> {}]

\* cal_threshold_freq as ad9361_setup sets it, in Hz.
CalThresholdFreq == 100000000

\* The end of ad9361_setup: read the state back, enter FDD or RX, then turn
\* the automatic TX quadrature calibration on.
SetupEnd(pd, agc, trk) ==
    LET m0 == [phy |-> PhyInit(pd, agc, trk), regs |-> RegsInit(pd), hw |-> "ALERT",
               log |-> <<>>, ret |-> OK]
        m1 == TrackingControl(m0, trk[1], trk[2], trk[3])
        m2 == [SpiReadState(m1) EXCEPT !.phy.curr_ensm_state = m1.hw]
        m3 == EnsmSetState(m2, IF pd.fdd THEN "FDD" ELSE "RX", pd.ensm_pin_ctrl)
    IN  [m3 EXCEPT !.phy.auto_cal_en = TRUE,
                   !.phy.cal_threshold_freq = CalThresholdFreq]

NoQ == [cal |-> "", rx_low |-> TRUE, done |-> TRUE, widen |-> FALSE, bw |-> "ok",
        run1 |-> TRUE, conv |-> TRUE, search |-> "ok", filt |-> "ok"]

\* What the hardware does during a dispatched calibration.
CalScenarios ==
    { [NoQ EXCEPT !.cal = "RFDC_CAL", !.rx_low = l, !.done = d]
        : l \in BOOLEAN, d \in BOOLEAN }
    \cup { [NoQ EXCEPT !.cal = "BBDC_CAL"] }
    \cup { [NoQ EXCEPT !.cal = "TX_QUAD_CAL", !.widen = TRUE, !.bw = b]
        : b \in {"rx_timeout", "tx_timeout"} }
    \cup { [NoQ EXCEPT !.cal = "TX_QUAD_CAL", !.widen = w, !.run1 = r]
        : w \in BOOLEAN, r \in BOOLEAN }
    \cup { [NoQ EXCEPT !.cal = "TX_QUAD_CAL", !.conv = FALSE, !.search = s]
        : s \in {"ok", "scan_timeout", "confirm_timeout"} }
    \cup { [NoQ EXCEPT !.cal = "TX_QUAD_CAL", !.run1 = FALSE, !.conv = FALSE] }

\* No clock computation has been asked for yet.
NoCalc == [op |-> "none"]

\* The clock node the clock calls work on: its kind, the scale bits its
\* register field holds, the multiplier and divisor cached in the node, and,
\* for an RF synthesizer, the words and the VCO divider in its registers,
\* the fast-lock profile in use (0 for none), the one in use on the other
\* synthesizer (profile_other) and the words that profile holds; bypass_fir is the FIR bypass flag of phy a sample-clock node reads.
\* After construction it is the reference scaler of the baseband PLL at x1.
ClkBoot == [source |-> "BB_REFCLK", scale |-> 0, mult |-> 1, div |-> 1,
            bypass_fir |-> TRUE, integer |-> 0, fract |-> 0, vco_div |-> 0,
            profile |-> 0, profile_other |-> 0,
            fastlock |-> [integer |-> 0, fract |-> 0, vco_div |-> 0]]

InitDevice ==
    \E c \in Configs :
        LET m == SetupEnd(c.pd, c.agc, c.trk)
        IN  /\ phy = m.phy
            /\ regs = m.regs
            /\ dev_ensm_state = m.hw
            /\ wlog = m.log
            /\ last = [op |-> "setup", state |-> IF c.pd.fdd THEN "FDD" ELSE "RX",
                       pinctrl |-> c.pd.ensm_pin_ctrl, q |-> NoQ, ret |-> m.ret]
            /\ cal = CalIdle
            /\ calc = NoCalc

Init == InitDevice /\ clk = ClkBoot

\* The device as a handler finds it, with an empty transaction log.
Machine == [phy |-> phy, regs |-> regs, hw |-> dev_ensm_state, log |-> <<>>,
            ret |-> OK]

\* The state a handler leaves, and the record of the call.
Commit(m, op, state, pinctrl, q) ==
    /\ phy' = m.phy
    /\ regs' = m.regs
    /\ dev_ensm_state' = m.hw
    /\ wlog' = m.log
    /\ last' = [op |-> op, state |-> state, pinctrl |-> pinctrl, q |-> q,
                ret |-> m.ret]
    /\ UNCHANGED <<cal, calc, clk>>

----------------------------------------------------------------------------
(* Operations                                                              *)

\* Values ad9361_ensm_set_state is called with: the nine states and a
\* reserved encoding.
SetStateArgs == EnsmStates \cup {"RESERVED"}

SetState ==
    \E s \in SetStateArgs, pinctrl \in BOOLEAN :
        Commit(EnsmSetState(Machine, s, pinctrl), "set_state", s, pinctrl, NoQ)

\* ad9361_ensm_force_state is exported; it is called with the states the
\* duplex mode has, and the model adds one state it has no case for.
ForceArgs(fdd) == (IF fdd THEN {"ALERT", "FDD"} ELSE {"ALERT", "TX", "RX"})
                  \cup {"SLEEP_WAIT"}

ForceState ==
    \E s \in ForceArgs(phy.pdata.fdd) :
        Commit(EnsmForceState(Machine, s), "force_state", s, FALSE, NoQ)

CalibRun ==
    \E q \in CalScenarios :
        Commit(DoCalibRun(Machine, q), "do_calib_run", "ALERT", FALSE, q)

\* With ENABLE_ENSM_PIN_CTRL set the ENABLE/TXNRX pins, not the driver, move
\* the ENSM: it can be found in any state of its duplex mode.
PinDrive ==
    /\ "ENABLE_ENSM_PIN_CTRL" \in regs["REG_ENSM_CONFIG_1"]
    /\ regs["REG_CLOCK_ENABLE"] # {}
    /\ \E s \in HwStatesOfMode(phy.pdata.fdd) :
          /\ s # dev_ensm_state
          /\ dev_ensm_state' = s
          /\ last' = [op |-> "pin_drive", state |-> s, pinctrl |-> TRUE, q |-> NoQ,
                      ret |-> OK]
    /\ wlog' = <<>>
    /\ UNCHANGED <<phy, regs, cal, calc, clk>>

Next == SetState \/ ForceState \/ CalibRun \/ PinDrive

Spec == Init /\ [][Next]_vars

----------------------------------------------------------------------------
(* The calibration poll, stepwise                                          *)

InitCal ==
    /\ Init
    /\ phy.agc_mode = <<MGC, MGC>>

\* ad9361_run_calibration up to the first poll: write the mask, enter the loop.
CalStart ==
    /\ cal.pc = "idle"
    /\ \E mask \in CalMasks :
          /\ wlog' = <<<<"w", "REG_CALIBRATION_CTRL", {mask}>>>>
          /\ cal' = [pc |-> "poll", reg |-> "REG_CALIBRATION_CTRL", mask |-> mask,
                     timeout |-> CalTimeout, polls |-> 0, ret |-> OK]
    /\ UNCHANGED <<phy, regs, dev_ensm_state, last, calc, clk>>

\* One pass of the do-while body: read the bit, return 0 if it is done, else
\* delay and test `timeout--`.  The decrement that leaves the loop wraps the
\* uint32_t to 0xFFFFFFFF, written -1 here; the value is not read again.
CalPoll ==
    /\ cal.pc = "poll"
    /\ \E done \in BOOLEAN :
          IF done
          THEN cal' = [cal EXCEPT !.pc = "returned", !.polls = @ + 1, !.ret = OK]
          ELSE cal' = [cal EXCEPT
                    !.pc = IF CalLoopAgain(cal.timeout) THEN "poll" ELSE "returned",
                    !.polls = @ + 1,
                    !.timeout = @ - 1,
                    !.ret = IF CalLoopAgain(cal.timeout) THEN OK ELSE ETIMEDOUT]
    /\ UNCHANGED <<phy, regs, dev_ensm_state, wlog, last, calc, clk>>

\* The caller takes the result; the next calibration can start.
CalReturn ==
    /\ cal.pc = "returned"
    /\ cal' = CalIdle
    /\ UNCHANGED <<phy, regs, dev_ensm_state, wlog, last, calc, clk>>

NextCal == CalStart \/ CalPoll \/ CalReturn

SpecCal == InitCal /\ [][NextCal]_vars

----------------------------------------------------------------------------
(* Properties of the guarded bracket (ad9361_do_calib_run)                 *)

CFG == "REG_ENSM_CONFIG_1"

PinCtl(r) == "ENABLE_ENSM_PIN_CTRL" \in r[CFG]

\* The tracking registers hold the enables configured in phy.
TrackingAsConfigured ==
    /\ ("ENABLE_BB_DC_OFFSET_TRACKING" \in regs["REG_DC_OFFSET_CONFIG2"]) = phy.bbdc_track_en
    /\ ("ENABLE_RF_OFFSET_TRACKING" \in regs["REG_DC_OFFSET_CONFIG2"]) = phy.rfdc_track_en
    /\ ("ENABLE_TRACKING_MODE_CH1" \in regs["REG_CALIBRATION_CONFIG_1"]) = phy.quad_track_en

\* Position in a log of the last read of REG_ENSM_CONFIG_1 (0 if none): the
\* read that opens ad9361_ensm_restore_prev_state.
LastCfgRead(log) ==
    LET is == {i \in 1..Len(log) : log[i] = <<"r", CFG, {}>>}
    IN  IF is = {} THEN 0 ELSE CHOOSE i \in is : \A j \in is : j <= i

\* The log ends with the second tracking_control block followed by the
\* accesses of restore_prev_state, and nothing else.
UnwoundInLog(log) ==
    LET i == LastCfgRead(log)
    IN  /\ i > 6
        /\ log[i - 1][1] = "w" /\ log[i - 1][2] = "REG_CALIBRATION_CONFIG_1"
        /\ ("ENABLE_TRACKING_MODE_CH1" \in log[i - 1][3]) = phy.quad_track_en
        /\ log[i - 4][1] = "w" /\ log[i - 4][2] = "REG_DC_OFFSET_CONFIG2"
        /\ ("ENABLE_BB_DC_OFFSET_TRACKING" \in log[i - 4][3]) = phy.bbdc_track_en
        /\ ("ENABLE_RF_OFFSET_TRACKING" \in log[i - 4][3]) = phy.rfdc_track_en
        /\ \A j \in (i + 1)..Len(log) : log[j][1] = "w" /\ log[j][2] = CFG

C2_ErrorSurfaced ==
    last.op = "do_calib_run" =>
        (IsErr(last.ret) <=> IsErr(CalibDispatch(Machine, last.q).ret))

C4_PinCtlPreserved ==
    [][last'.op = "do_calib_run" => PinCtl(regs') = PinCtl(regs)]_vars

----------------------------------------------------------------------------
(* Properties of the calibration poll (ad9361_check_cal_done)              *)

\* C5: a calibration whose done bit never reaches the done state returns
\* -ETIMEDOUT after exactly 5000 polls of the status bit, not earlier and not
\* later.
C5_TimeoutAfterBudget ==
    (cal.pc = "returned" /\ cal.ret = ETIMEDOUT) => cal.polls = CalTimeout

----------------------------------------------------------------------------
(* Properties of ad9361_ensm_set_state                                     *)

\* The transactions of a log that write REG_ENSM_CONFIG_1.
CfgWrites(log) == {i \in 1..Len(log) : log[i][1] = "w" /\ log[i][2] = CFG}

\* The request just served is ensm_set_state(s, _) for some s in S.
SetStateTo(S) == last'.op = "set_state" /\ last'.state \in S

\* A read-modify-write of the VCO calibration bypass of one synthesizer at
\* position i of a log: bypassed (calibration disabled) or not.
VcoCalAt(log, i, reg, bypass) ==
    /\ log[i] = <<"r", reg, {}>>
    /\ log[i + 1][1] = "w" /\ log[i + 1][2] = reg
    /\ ("BYPASS_LD_SYNTH" \in log[i + 1][3]) = bypass

\* C6: set_state to TX or RX succeeds only in TDD mode with the tracked state
\* ALERT; in every other case it returns an error, writes no configuration
\* with a force bit, and leaves the tracked state unchanged.
C6_TxRxOnlyFromAlertInTdd ==
    [][SetStateTo({"TX", "RX"}) =>
          LET legal == ~phy.pdata.fdd /\ phy.curr_ensm_state = "ALERT"
          IN  /\ last'.ret = OK => legal
              /\ ~legal =>
                    /\ IsErr(last'.ret)
                    /\ phy'.curr_ensm_state = phy.curr_ensm_state
                    /\ \A i \in CfgWrites(wlog') : wlog'[i][3] \cap ForceBits = {}]_vars

\* set_state(TX) asked of a sleeping TDD device: the wake-up sequence has run
\* and the request has been rejected, the tracked state still SLEEP.
C6_Witness ==
    /\ last.op = "set_state" /\ last.state = "TX"
    /\ last.ret = EINVAL
    /\ ~phy.pdata.fdd
    /\ phy.curr_ensm_state = "SLEEP"
    /\ Len(wlog) = 7

\* C7: set_state to FDD succeeds only in full-duplex mode; in TDD mode it
\* returns an error and leaves the tracked state unchanged.
C7_FddOnlyInFddMode ==
    [][SetStateTo({"FDD"}) =>
          /\ last'.ret = OK => phy.pdata.fdd
          /\ ~phy.pdata.fdd =>
                /\ IsErr(last'.ret)
                /\ phy'.curr_ensm_state = phy.curr_ensm_state
                /\ \A i \in CfgWrites(wlog') : wlog'[i][3] \cap ForceBits = {}]_vars

\* set_state(FDD) has been rejected on a TDD device in ALERT.
C7_Witness ==
    /\ last.op = "set_state" /\ last.state = "FDD"
    /\ last.ret = EINVAL
    /\ ~phy.pdata.fdd
    /\ phy.curr_ensm_state = "ALERT"
    /\ wlog = <<>>

\* C8: set_state to ALERT succeeds from every tracked state in both duplex
\* modes; the configuration it writes has the forced-TX and forced-RX bits
\* clear, and the tracked state becomes ALERT.
C8_AlertAlwaysLegal ==
    [][SetStateTo({"ALERT"}) =>
          /\ last'.ret = OK
          /\ phy'.curr_ensm_state = "ALERT"
          /\ CfgWrites(wlog') # {}
          /\ \A i \in CfgWrites(wlog') :
                /\ wlog'[i][3] \cap ForceBits = {}
                /\ AlertBits \subseteq wlog'[i][3]
          /\ wlog'[Len(wlog')][2] = CFG
          /\ regs'[CFG] \cap ForceBits = {}]_vars

\* set_state(ALERT) has been served on a full-duplex device: one write of the
\* ALERT configuration, the device in ALERT.
C8_Witness ==
    /\ last.op = "set_state" /\ last.state = "ALERT"
    /\ last.ret = OK
    /\ phy.pdata.fdd
    /\ phy.curr_ensm_state = "ALERT"
    /\ dev_ensm_state = "ALERT"
    /\ Len(wlog) = 1
    /\ wlog[1][2] = CFG /\ AlertBits \subseteq wlog[1][3]

\* C9: with the tracked state SLEEP, every set_state request for a non-sleep
\* state first writes the clock-enable register, then forces ALERT, then
\* re-enables VCO calibration on the receive and the transmit synthesizer,
\* and writes the configuration of the requested state only after that.
C9_WakeBeforeTarget ==
    [][(SetStateTo(SetStateArgs \ {"SLEEP"}) /\ phy.curr_ensm_state = "SLEEP") =>
          /\ Len(wlog') >= 7
          /\ wlog'[1][1] = "w" /\ wlog'[1][2] = "REG_CLOCK_ENABLE"
          /\ {"DIGITAL_POWER_UP", "CLOCK_ENABLE_DFLT", "BBPLL_ENABLE"} \subseteq wlog'[1][3]
          /\ wlog'[3] = <<"w", CFG, AlertBits>>
          /\ VcoCalAt(wlog', 4, "REG_RX_PFD_CONFIG", FALSE)
          /\ VcoCalAt(wlog', 6, "REG_TX_PFD_CONFIG", FALSE)
          /\ \A i \in CfgWrites(wlog') : i = 3 \/ i > 7
          /\ (last'.ret = OK /\ last'.state \in SetStateHandled) =>
                /\ Len(wlog') >= 8
                /\ wlog'[8][1] = "w" /\ wlog'[8][2] = CFG
                /\ wlog'[8][3] \cap ForceBits =
                      (IF last'.state = "FDD" THEN ForceBits ELSE {})]_vars

\* set_state(FDD) has been served on a sleeping full-duplex device: the
\* wake-up sequence, then the FDD configuration.
C9_Witness ==
    /\ last.op = "set_state" /\ last.state = "FDD"
    /\ last.ret = OK
    /\ phy.curr_ensm_state = "FDD"
    /\ Len(wlog) >= 8
    /\ wlog[1][2] = "REG_CLOCK_ENABLE"
    /\ wlog[8][2] = CFG /\ ForceBits \subseteq wlog[8][3]

\* C10: set_state to SLEEP, from every starting state, disables VCO
\* calibration on both synthesizers, then flushes (forced TX or RX followed by
\* the flush delay), then clears the ENSM configuration, then gates all clocks
\* off, in this order, records SLEEP as the tracked state and returns success.
C10_SleepSequence ==
    [][SetStateTo({"SLEEP"}) =>
          LET n == Len(wlog')
              k == n - 10
          IN  /\ last'.ret = OK
              /\ phy'.curr_ensm_state = "SLEEP"
              /\ k = (IF phy.curr_ensm_state = "SLEEP" THEN 7 ELSE 0)
              /\ VcoCalAt(wlog', k + 1, "REG_RX_PFD_CONFIG", TRUE)
              /\ VcoCalAt(wlog', k + 3, "REG_TX_PFD_CONFIG", TRUE)
              /\ wlog'[k + 5] = <<"w", CFG, {}>>
              /\ wlog'[k + 6] = <<"w", CFG, IF phy.pdata.fdd THEN {"FORCE_TX_ON"}
                                                         ELSE {"FORCE_RX_ON"}>>
              /\ wlog'[k + 7] = <<"d", "udelay", {"384000000/ADC_CLK"}>>
              /\ wlog'[k + 8] = <<"w", CFG, {}>>
              /\ wlog'[k + 9][1] = "d"
              /\ wlog'[k + 10] = <<"w", "REG_CLOCK_ENABLE", {}>>
              /\ regs'["REG_CLOCK_ENABLE"] = {}
              /\ dev_ensm_state' = "SLEEP_WAIT"]_vars

\* set_state(SLEEP) has been served on a running TDD device: ten
\* transactions, the clocks off, the tracked state SLEEP.
C10_Witness ==
    /\ last.op = "set_state" /\ last.state = "SLEEP"
    /\ last.ret = OK
    /\ ~phy.pdata.fdd
    /\ phy.curr_ensm_state = "SLEEP"
    /\ regs["REG_CLOCK_ENABLE"] = {}
    /\ Len(wlog) = 10

----------------------------------------------------------------------------
(* 32-bit unsigned arithmetic                                              *)

\* A uint32_t is written as the int32_t with the same 32 bits, so values from
\* 2^31 up appear as negative numbers; the operators below compute on the
\* two 16-bit halves and give the results of the unsigned C operations.
Lo16(x) == x % 65536

Hi16(x) == (x \div 65536) % 65536

FromHalves(h, l) == (IF h >= 32768 THEN h - 65536 ELSE h) * 65536 + l

\* x * k in uint32_t (k a small factor): the product modulo 2^32.
MulU32(x, k) ==
    LET lo == Lo16(x) * k
        hi == Hi16(x) * k + lo \div 65536
    IN  FromHalves(hi % 65536, lo % 65536)

\* a < b, a <= b, a > b on uint32_t.
ULt(a, b) == IF (a >= 0) = (b >= 0) THEN a < b ELSE b < 0

ULe(a, b) == a = b \/ ULt(a, b)

UGt(a, b) == ULt(b, a)

\* a / b on uint32_t, for a divisor below 2^31.
UDiv(a, b) ==
    IF a >= 0 THEN a \div b
    ELSE LET h   == (a + 2147483647) + 1
             q31 == 2147483647 \div b
             r31 == 2147483647 % b
         IN  (h \div b) + q31 + ((h % b) + r31 + 1) \div b

----------------------------------------------------------------------------
(* ad9361_calculate_rf_clock_chain                                         *)

\* Limits of the ADC, DAC and baseband PLL clocks.
MIN_ADC_CLK == 25000000
MAX_ADC_CLK == 640000000
MAX_DAC_CLK == 320000000
MAX_BBPLL_FREQ == 1430000000
MIN_BBPLL_DIV == 2
MAX_BBPLL_DIV == 64

\* const int8_t clk_dividers[][4]
clk_dividers ==
    << <<12, 3, 2, 2>>, <<8, 2, 2, 2>>, <<6, 3, 1, 2>>, <<4, 2, 2, 1>>,
       <<3, 3, 1, 1>>, <<2, 2, 1, 1>>, <<1, 1, 1, 1>> >>

\* clk_dividers[i][c]; an index outside the table reads the byte oob that
\* happens to lie next to it.
ClkDivider(i, c, oob) ==
    IF i \in 0..6 THEN clk_dividers[i + 1][c + 1] ELSE oob

\* The chain buffers of a call that has not written them.
Unwritten == <<>>

RxIntdec(p) == IF p.bypass_rx_fir THEN 1 ELSE p.rx_fir_dec

TxIntdec(p) == IF p.bypass_tx_fir THEN 1 ELSE p.tx_fir_int

\* AboveCeiling with the single-channel ceiling in both channel modes.
AboveCeilingSingle(p, tx_sample_rate) == UGt(tx_sample_rate, 122880000)

\* tx_sample_rate > (rx2tx2 ? 61440000UL : 122880000UL)
AboveCeiling(p, tx_sample_rate) ==
    UGt(tx_sample_rate, IF p.rx2tx2 THEN 61440000 ELSE 122880000)

PlanClktf(p, tx_sample_rate) == MulU32(tx_sample_rate, TxIntdec(p))

\* PlanClkrf without the factor of the RX = 2 x TX mode.
PlanClkrfNo2x(p, tx_sample_rate) == MulU32(tx_sample_rate, RxIntdec(p))

PlanClkrf(p, tx_sample_rate) ==
    MulU32(MulU32(tx_sample_rate, RxIntdec(p)), IF p.rx_eq_2tx THEN 2 ELSE 1)

\* (adc_rate <= MAX_ADC_CLK) && (adc_rate >= MIN_ADC_CLK)
InAdcRange(adc_rate) == ULe(adc_rate, MAX_ADC_CLK) /\ ULe(MIN_ADC_CLK, adc_rate)

\* The for loop: i runs from (int32_t)rate_gov while i < 7 and stops at the
\* first entry whose adc_rate is in range.  `scanned` counts the entries read.
PlanScan(p, clkrf, rate_gov) ==
    LET hits == {i \in rate_gov..6 : InAdcRange(MulU32(clkrf, ClkDivider(i, 0, p.oob)))}
        i    == CHOOSE h \in hits : \A g \in hits : h <= g
    IN  IF hits = {}
        THEN [found |-> FALSE, i |-> 7,
              scanned |-> IF rate_gov > 6 THEN 0 ELSE 7 - rate_gov]
        ELSE [found |-> TRUE, i |-> i, scanned |-> i - rate_gov + 1]

\* tmp: the ratio of the two converter rates, negative when the DAC is faster.
PlanTmp(adc_rate, dac_rate) ==
    IF UGt(dac_rate, adc_rate) THEN (UDiv(dac_rate, adc_rate)) * (-1)
    ELSE UDiv(adc_rate, dac_rate)

\* index_tx as the accepted entry i derives it.
PlanIndexTx(i, adc_rate, tmp) ==
    IF ULe(adc_rate, MAX_DAC_CLK)
    THEN i - (IF tmp = 1 THEN 0 ELSE tmp)
    ELSE IF i = 4 /\ tmp >= 0 THEN 7
    ELSE i + (IF i = 5 /\ tmp >= 0 THEN 1 ELSE 2) - (IF tmp = 1 THEN 0 ELSE tmp)

\* dac_rate as the accepted entry leaves it: ADC_CLK or ADC_CLK/2.
PlanDacRate(adc_rate) ==
    IF ULe(adc_rate, MAX_DAC_CLK) THEN adc_rate ELSE adc_rate \div 2

BadIndex(index_rx, index_tx) ==
    index_tx < 0 \/ index_tx > 6 \/ index_rx < 0 \/ index_rx > 6

\* BbpllSearch comparing the product with the lower limit of the PLL
\* (715 MHz) instead of the upper one.
RECURSIVE BbpllSearchLowLimit(_, _)
BbpllSearchLowLimit(adc_rate, div) ==
    LET over == adc_rate > 715000000 \div div
        half == div \div 2
    IN  IF over /\ half >= MIN_BBPLL_DIV
        THEN [BbpllSearchLowLimit(adc_rate, half) EXCEPT !.halvings = @ + 1]
        ELSE [bbpll_rate |-> adc_rate * div, div |-> div, halvings |-> 1]

\* The do-while that halves div: bbpll_rate = (uint64_t)adc_rate * div is
\* compared with MAX_BBPLL_FREQ as adc_rate > MAX_BBPLL_FREQ / div, which is
\* the same test on integers.  `div` is the divisor of the product kept and
\* `halvings` the number of passes of the loop body.
RECURSIVE BbpllSearch(_, _)
BbpllSearch(adc_rate, div) ==
    LET over == adc_rate > MAX_BBPLL_FREQ \div div
        half == div \div 2
    IN  IF over /\ half >= MIN_BBPLL_DIV
        THEN [BbpllSearch(adc_rate, half) EXCEPT !.halvings = @ + 1]
        ELSE [bbpll_rate |-> adc_rate * div, div |-> div, halvings |-> 1]

\* rx_path_clks / tx_path_clks: BBPLL, ADC or DAC, the two half-band stages,
\* the FIR input rate and the sample rate.
PlanChain(bbpll_rate, conv_rate, index, intdec) ==
    LET s2 == conv_rate \div clk_dividers[index + 1][2]
        s1 == s2 \div clk_dividers[index + 1][3]
        cf == s1 \div clk_dividers[index + 1][4]
    IN  <<bbpll_rate, conv_rate, s2, s1, cf, cf \div intdec>>

\* The result of a call that fails: nothing is written to either chain.
PlanFail(scanned) ==
    [ret |-> EINVAL, rx_path_clks |-> Unwritten, tx_path_clks |-> Unwritten,
     index_rx |-> -1, index_tx |-> -1, adc_rate |-> 0, div |-> 0,
     levels |-> 1, scanned |-> scanned, halvings |-> 0]

\* ad9361_calculate_rf_clock_chain.  p holds the fields of phy it reads;
\* rate_gov = 0xFFFFFFFF is written -1, which is also the value of i it
\* starts the scan with.  Besides the return code and the two chains the
\* result records the indices chosen, the number of nested calls (`levels`),
\* the largest number of table entries one call read (`scanned`) and the
\* passes of the halving loop.
RECURSIVE CalculateRfClockChain(_, _, _)
CalculateRfClockChain(p, tx_sample_rate, rate_gov) ==
    LET clktf    == PlanClktf(p, tx_sample_rate)
        clkrf    == PlanClkrf(p, tx_sample_rate)
        sc       == PlanScan(p, clkrf, rate_gov)
        adc_rate == MulU32(clkrf, ClkDivider(sc.i, 0, p.oob))
        dac_rate == MulU32(clktf, ClkDivider(sc.i, 0, p.oob))
        index_rx == IF sc.found THEN sc.i ELSE -1
        index_tx == IF sc.found
                    THEN PlanIndexTx(sc.i, adc_rate, PlanTmp(adc_rate, dac_rate))
                    ELSE -1
        bb       == BbpllSearch(adc_rate, MAX_BBPLL_DIV)
        deeper   == CalculateRfClockChain(p, tx_sample_rate, rate_gov + 1)
    IN  IF AboveCeiling(p, tx_sample_rate) THEN PlanFail(0)
        ELSE IF BadIndex(index_rx, index_tx) /\ rate_gov \in 0..6
        THEN [deeper EXCEPT !.levels = @ + 1,
                            !.scanned = IF @ > sc.scanned THEN @ ELSE sc.scanned]
        ELSE IF BadIndex(index_rx, index_tx) THEN PlanFail(sc.scanned)
        ELSE [ret |-> OK,
              rx_path_clks |-> PlanChain(bb.bbpll_rate, adc_rate, index_rx, RxIntdec(p)),
              tx_path_clks |-> PlanChain(bb.bbpll_rate, PlanDacRate(adc_rate),
                                         index_tx, TxIntdec(p)),
              index_rx |-> index_rx, index_tx |-> index_tx,
              adc_rate |-> adc_rate, div |-> bb.div,
              levels |-> 1, scanned |-> sc.scanned, halvings |-> bb.halvings]

\* Sample rates the planner is asked for: the lowest rates of the part, rates
\* in the middle of its range, the two ceilings and the rates just above
\* them, and 0xFFFFFFFF.
PlanRates ==
    {520833, 2083333, 3250000, 20125000, 30720000, 45625000, 50000000,
     61440000, 61440001, 100000000, 122880000, 122880001, -1}

\* Largest rate governor asked for, besides 0xFFFFFFFF.
MaxGov == 8

PlanGovs == (0..MaxGov) \cup {-1}

\* A FIR filter: bypassed (its factor as ad9361_clear_state leaves it), or
\* interpolating / decimating by 1, 2 or 4.
FirSettings ==
    {[bypass |-> TRUE, n |-> 0]} \cup {[bypass |-> FALSE, n |-> k] : k \in {1, 2, 4}}

PlanCall ==
    /\ calc = NoCalc
    /\ \E rate \in PlanRates, gov \in PlanGovs, rxf \in FirSettings,
          txf \in FirSettings, eq2 \in BOOLEAN, oob \in {0, 1} :
          LET p == [rx2tx2 |-> phy.pdata.rx2tx2, rx_eq_2tx |-> eq2,
                    bypass_rx_fir |-> rxf.bypass, rx_fir_dec |-> rxf.n,
                    bypass_tx_fir |-> txf.bypass, tx_fir_int |-> txf.n,
                    oob |-> oob]
          IN  /\ gov >= 0 => oob = 0
              /\ calc' = [op |-> "plan", p |-> p, tx_sample_rate |-> rate,
                          rate_gov |-> gov,
                          out |-> CalculateRfClockChain(p, rate, gov)]
    /\ UNCHANGED <<phy, regs, dev_ensm_state, wlog, last, cal, clk>>

\* The caller has taken the result.
CalcReturn ==
    /\ calc # NoCalc
    /\ calc' = NoCalc
    /\ UNCHANGED <<phy, regs, dev_ensm_state, wlog, last, cal, clk>>

NextPlan == PlanCall \/ CalcReturn

SpecPlan == Init /\ [][NextPlan]_vars

----------------------------------------------------------------------------
(* Properties of the sample-rate planner                                   *)

\* A call of the planner has returned.
Planned == calc.op = "plan"

\* The rate asked for is at or below the ceiling and the governor is one of
\* 0..MaxGov.
PlanInDomain ==
    /\ Planned
    /\ ~AboveCeiling(calc.p, calc.tx_sample_rate)
    /\ calc.rate_gov >= 0

\* C11: a sample rate above the ceiling of the channel mode (61,440,000
\* dual-channel, 122,880,000 single-channel; a negative number stands for a
\* rate of 2^31 or more) fails at once with an error: no divider tuple is
\* evaluated, no nested call is made and neither chain is written.
C11_CeilingRejected ==
    (Planned /\ (\/ calc.tx_sample_rate < 0
                 \/ calc.tx_sample_rate >
                       (IF phy.pdata.rx2tx2 THEN 61440000 ELSE 122880000))) =>
        /\ calc.out.ret = EINVAL
        /\ calc.out.scanned = 0
        /\ calc.out.levels = 1
        /\ calc.out.halvings = 0
        /\ calc.out.rx_path_clks = Unwritten
        /\ calc.out.tx_path_clks = Unwritten

\* 61,440,001 has been asked of a dual-channel device and rejected.
C11_Witness ==
    /\ Planned
    /\ calc.tx_sample_rate = 61440001
    /\ phy.pdata.rx2tx2
    /\ calc.out.ret = EINVAL
    /\ calc.out.scanned = 0

\* plan(61,440,000, governor 0) in RX = 2 x TX mode.
C12_Case ==
    /\ Planned
    /\ calc.tx_sample_rate = 61440000
    /\ calc.rate_gov = 0
    /\ calc.p.rx_eq_2tx

\* C12 (as stated): plan(61,440,000, 0) in RX = 2 x TX mode returns both
\* chains with the RX sample rate equal to the TX sample rate and the ADC
\* rate within [MIN_ADC_CLK, MAX_ADC_CLK].
C12_AsStated ==
    C12_Case =>
        /\ calc.out.ret = OK
        /\ calc.out.rx_path_clks[6] = calc.out.tx_path_clks[6]
        /\ calc.out.rx_path_clks[2] >= MIN_ADC_CLK
        /\ calc.out.rx_path_clks[2] <= MAX_ADC_CLK

\* C12 (amended): with both FIR filters bypassed the call succeeds with the
\* TX sample rate 61,440,000 and the RX sample rate twice that; with any FIR
\* setting, a successful call returns the RX sample rate 122,880,000, the ADC
\* rate within [MIN_ADC_CLK, MAX_ADC_CLK] and the same PLL rate in both
\* chains.
C12_RxTwiceTx ==
    C12_Case =>
        /\ (calc.p.bypass_rx_fir /\ calc.p.bypass_tx_fir) =>
              /\ calc.out.ret = OK
              /\ calc.out.tx_path_clks[6] = 61440000
              /\ calc.out.rx_path_clks[6] = 2 * calc.out.tx_path_clks[6]
        /\ calc.out.ret = OK =>
              /\ calc.out.rx_path_clks[6] = 122880000
              /\ calc.out.rx_path_clks[2] >= MIN_ADC_CLK
              /\ calc.out.rx_path_clks[2] <= MAX_ADC_CLK
              /\ calc.out.rx_path_clks[1] = calc.out.tx_path_clks[1]

\* The call has succeeded with both FIR filters bypassed.
C12_Witness ==
    /\ C12_Case
    /\ calc.p.bypass_rx_fir /\ calc.p.bypass_tx_fir
    /\ calc.out.ret = OK
    /\ calc.out.rx_path_clks[6] = 122880000
    /\ calc.out.tx_path_clks[6] = 61440000

\* C13: for every rate at or below the ceiling, every governor in 0..6, every
\* FIR setting and either RX = 2 x TX setting, a successful plan has the TX
\* sample rate equal to the rate asked for and the RX sample rate equal to it
\* (twice it in RX = 2 x TX mode).
C13_ChainsHitRequestedRate ==
    (PlanInDomain /\ calc.rate_gov <= 6 /\ calc.out.ret = OK) =>
        /\ calc.out.tx_path_clks[6] = calc.tx_sample_rate
        /\ calc.out.rx_path_clks[6] =
              calc.tx_sample_rate * (IF calc.p.rx_eq_2tx THEN 2 ELSE 1)

\* clk_rf x outer_multiplier[i] lies in [MIN_ADC_CLK, MAX_ADC_CLK], the
\* product taken in the integers (stated on clk_rf so that no number beyond
\* 2^31 is formed).
ExactAdcInRange(clkrf, i) ==
    LET k == clk_dividers[i + 1][1]
    IN  /\ clkrf <= MAX_ADC_CLK \div k
        /\ clkrf >= (MIN_ADC_CLK + k - 1) \div k

\* The TX table index entry i derives, on the products taken in the integers.
ExactIndexTx(clkrf, clktf, i) ==
    LET k   == clk_dividers[i + 1][1]
        tmp == IF clktf > clkrf THEN (clktf \div clkrf) * (-1) ELSE clkrf \div clktf
    IN  IF clkrf <= MAX_DAC_CLK \div k
        THEN i - (IF tmp = 1 THEN 0 ELSE tmp)
        ELSE IF i = 4 /\ tmp >= 0 THEN 7
        ELSE i + (IF i = 5 /\ tmp >= 0 THEN 1 ELSE 2) - (IF tmp = 1 THEN 0 ELSE tmp)

\* The indices in governor..6 that satisfy both conditions of C14.
GoodIndices ==
    LET clkrf == calc.tx_sample_rate * RxIntdec(calc.p)
                     * (IF calc.p.rx_eq_2tx THEN 2 ELSE 1)
        clktf == calc.tx_sample_rate * TxIntdec(calc.p)
    IN  {i \in calc.rate_gov..6 :
            /\ ExactAdcInRange(clkrf, i)
            /\ ExactIndexTx(clkrf, clktf, i) \in 0..6}

\* C14: a successful plan uses the lowest index i >= governor whose ADC rate
\* clk_rf x outer_multiplier[i] is in range and whose derived TX index is in
\* 0..6; the plan fails exactly when governor..6 holds no such index.
C14_LowestGoodIndex ==
    PlanInDomain =>
        IF GoodIndices = {} THEN calc.out.ret = EINVAL
        ELSE /\ calc.out.ret = OK
             /\ calc.out.index_rx \in GoodIndices
             /\ \A i \in GoodIndices : calc.out.index_rx <= i

\* C15: the planner terminates for every sample rate and every governor: one
\* call reads at most 7 table entries, the calls nest at most 8 deep and the
\* halving loop makes at most 6 passes.
C15_BoundedSearch ==
    Planned =>
        /\ calc.out.scanned <= 7
        /\ calc.out.levels <= 8
        /\ calc.out.halvings <= 6

\* The powers of two in [MIN_BBPLL_DIV, MAX_BBPLL_DIV].
BbpllDivs == {d \in MIN_BBPLL_DIV..MAX_BBPLL_DIV : \E e \in 0..6 : d = 2^e}

\* C16: in a successful plan the PLL rate of both chains is adc_rate x d for
\* the largest power of two d in [MIN_BBPLL_DIV, MAX_BBPLL_DIV] with
\* adc_rate x d <= MAX_BBPLL_FREQ; d is at least MIN_BBPLL_DIV and the PLL
\* rate at most MAX_BBPLL_FREQ.
C16_BbpllTarget ==
    (Planned /\ calc.out.ret = OK) =>
        LET adc == calc.out.rx_path_clks[2]
            fit == {d \in BbpllDivs : adc <= MAX_BBPLL_FREQ \div d}
        IN  /\ fit # {}
            /\ calc.out.div \in fit
            /\ \A d \in fit : d <= calc.out.div
            /\ calc.out.div >= MIN_BBPLL_DIV
            /\ calc.out.rx_path_clks[1] = adc * calc.out.div
            /\ calc.out.tx_path_clks[1] = adc * calc.out.div
            /\ calc.out.rx_path_clks[1] <= MAX_BBPLL_FREQ

\* A plan has succeeded with the smallest divisor, the one before it being
\* too large.
C16_Witness ==
    /\ Planned
    /\ calc.out.ret = OK
    /\ calc.out.div = MIN_BBPLL_DIV
    /\ calc.out.halvings = 6
    /\ calc.out.rx_path_clks[2] > MAX_BBPLL_FREQ \div 4

(***************************************************************************)
(* Scaler clock nodes                                                      *)
(*                                                                         *)
(* A scaler node multiplies or divides its parent rate; the scale is held  *)
(* in a register field (`scale` below) and cached in the node as mult/div. *)
(* Every value the code writes into a field lies in the range the decoding *)
(* side reads from it, so a field is modelled as holding the value         *)
(* written.  The rates drawn below keep every sum and product under 2^31,  *)
(* where the code's uint32_t arithmetic is that of the integers.           *)
(***************************************************************************)

\* The reference scalers, which may multiply by 2.
RefclkSources == {"BB_REFCLK", "RX_REFCLK", "TX_REFCLK"}

\* The scaler node kinds (the cases of both scaler switches).
ScalerSources ==
    RefclkSources \cup
    {"ADC_CLK", "R2_CLK", "R1_CLK", "CLKRF_CLK", "RX_SAMPL_CLK",
     "DAC_CLK", "T2_CLK", "T1_CLK", "CLKTF_CLK", "TX_SAMPL_CLK"}

\* DIV_ROUND_CLOSEST for unsigned operands: x / divisor rounded to nearest.
DivRoundClosest(x, divisor) == (x + divisor \div 2) \div divisor

\* ilog2: the position of the highest set bit; und is what the build yields
\* for ilog2(0), which is not defined.
RECURSIVE ilog2(_, _)
ilog2(x, und) ==
    IF x = 0 THEN und ELSE IF x = 1 THEN 0 ELSE 1 + ilog2(x \div 2, und)

\* ad9361_set_muldiv.
SetMuldiv(node, mul, div) == [node EXCEPT !.mult = mul, !.div = div]

\* ad9361_get_clk_scaler: decodes the scale bits into the node's mult/div.
GetClkScaler(node) ==
    LET tmp == node.scale
        pow == IF tmp = 0 THEN 1 ELSE 2^(tmp - 1)
    IN  CASE node.source \in RefclkSources ->
                 (CASE tmp = 0 -> [ret |-> OK, node |-> SetMuldiv(node, 1, 1)]
                    [] tmp = 1 -> [ret |-> OK, node |-> SetMuldiv(node, 1, 2)]
                    [] tmp = 2 -> [ret |-> OK, node |-> SetMuldiv(node, 1, 4)]
                    [] tmp = 3 -> [ret |-> OK, node |-> SetMuldiv(node, 2, 1)]
                    [] OTHER   -> [ret |-> EINVAL, node |-> node])
          [] node.source = "ADC_CLK" ->
                 [ret |-> OK, node |-> SetMuldiv(node, 1, 2^(tmp % 8))]
          [] node.source \in {"RX_SAMPL_CLK", "TX_SAMPL_CLK"} ->
                 [ret |-> OK, node |-> SetMuldiv(node, 1, pow)]
          [] node.source \in ScalerSources ->
                 [ret |-> OK, node |-> SetMuldiv(node, 1, tmp + 1)]
          [] OTHER -> [ret |-> EINVAL, node |-> node]

\* ad9361_to_refclk_scaler: the scale bits of a reference scaler, -1 for a
\* mult/div pair the scaler cannot do.
ToRefclkScaler(node) ==
    LET key == (node.mult % 16) * 16 + (node.div % 16)
    IN  CASE key = 17 -> 0
          [] key = 18 -> 1
          [] key = 20 -> 2
          [] key = 33 -> 3
          [] OTHER    -> -1

\* The scale bits ad9361_set_clk_scaler derives from the node's mult/div,
\* -1 where it returns -EINVAL.  bypass_fir is bypass_rx_fir for the RX
\* sample clock and bypass_tx_fir for the TX one.
ScalerBits(node, bypass_fir, und) ==
    LET m  == node.mult
        d  == node.div
        lg == ilog2(d % 256, und)
    IN  CASE node.source \in RefclkSources -> ToRefclkScaler(node)
          [] node.source = "ADC_CLK" ->
                 IF m # 1 \/ lg > 6 \/ lg < 1 THEN -1 ELSE lg
          [] node.source \in {"R2_CLK", "T2_CLK"} ->
                 IF m # 1 \/ d > 3 \/ d < 1 THEN -1 ELSE d - 1
          [] node.source \in {"R1_CLK", "CLKRF_CLK", "DAC_CLK", "T1_CLK",
                              "CLKTF_CLK"} ->
                 IF m # 1 \/ d > 2 \/ d < 1 THEN -1 ELSE d - 1
          [] node.source \in {"RX_SAMPL_CLK", "TX_SAMPL_CLK"} ->
                 IF m # 1 \/ d > 4 \/ d < 1 \/ d = 3 THEN -1
                 ELSE IF bypass_fir THEN 0 ELSE ilog2(d, und) + 1
          [] OTHER -> -1

\* The register field a scaler node's bits live in.
ScalerField(source) ==
    CASE source = "BB_REFCLK"    -> <<"REG_CLOCK_CTRL", "REF_FREQ_SCALER">>
      [] source = "RX_REFCLK"    -> <<"REG_REF_DIVIDE_CONFIG_1", "RX_REF_DIVIDER_MSB">>
      [] source = "TX_REFCLK"    -> <<"REG_REF_DIVIDE_CONFIG_2", "TX_REF_DIVIDER">>
      [] source = "ADC_CLK"      -> <<"REG_BBPLL", "0x7">>
      [] source = "R2_CLK"       -> <<"REG_RX_ENABLE_FILTER_CTRL", "DEC3_ENABLE_DECIMATION">>
      [] source = "R1_CLK"       -> <<"REG_RX_ENABLE_FILTER_CTRL", "RHB2_EN">>
      [] source = "CLKRF_CLK"    -> <<"REG_RX_ENABLE_FILTER_CTRL", "RHB1_EN">>
      [] source = "RX_SAMPL_CLK" -> <<"REG_RX_ENABLE_FILTER_CTRL", "RX_FIR_ENABLE_DECIMATION">>
      [] source = "DAC_CLK"      -> <<"REG_BBPLL", "BIT(3)">>
      [] source = "T2_CLK"       -> <<"REG_TX_ENABLE_FILTER_CTRL", "THB3_ENABLE_INTERP">>
      [] source = "T1_CLK"       -> <<"REG_TX_ENABLE_FILTER_CTRL", "THB2_EN">>
      [] source = "CLKTF_CLK"    -> <<"REG_TX_ENABLE_FILTER_CTRL", "THB1_EN">>
      [] source = "TX_SAMPL_CLK" -> <<"REG_TX_ENABLE_FILTER_CTRL", "TX_FIR_ENABLE_INTERPOLATION">>

\* The register writes that store the scale bits of a node: one field
\* write, two for the RX reference scaler (bit 1, then bit 0).
ScalerWrites(source, bits) ==
    IF source = "RX_REFCLK"
    THEN << <<"w", <<"REG_REF_DIVIDE_CONFIG_1", "RX_REF_DIVIDER_MSB">>, bits \div 2>>,
            <<"w", <<"REG_REF_DIVIDE_CONFIG_2", "RX_REF_DIVIDER_LSB">>, bits % 2>> >>
    ELSE << <<"w", ScalerField(source), bits>> >>

\* ad9361_set_clk_scaler: validates the node's mult/div and, when set is
\* true, writes the scale bits.
\* SetClkScaler that replaces a mult/div it cannot encode by 1/1 and goes on.
SetClkScalerClamp(node, set, bypass_fir, und) ==
    LET bits == ScalerBits(node, bypass_fir, und)
        b    == IF bits < 0 THEN 0 ELSE bits
        n    == IF bits < 0 THEN SetMuldiv(node, 1, 1) ELSE node
    IN  IF set
        THEN [ret |-> OK, node |-> [n EXCEPT !.scale = b],
              log |-> ScalerWrites(node.source, b)]
        ELSE [ret |-> OK, node |-> n, log |-> <<>>]

SetClkScaler(node, set, bypass_fir, und) ==
    LET bits == ScalerBits(node, bypass_fir, und)
    IN  IF bits < 0 THEN [ret |-> EINVAL, node |-> node, log |-> <<>>]
        ELSE IF set
        THEN [ret |-> OK, node |-> [node EXCEPT !.scale = bits],
              log |-> ScalerWrites(node.source, bits)]
        ELSE [ret |-> OK, node |-> node, log |-> <<>>]

\* The mult/div both round_rate and set_rate derive from the rates.
FactorMuldiv(node, rate, parent_rate) ==
    IF rate >= parent_rate
    THEN SetMuldiv(node, DivRoundClosest(rate, parent_rate), 1)
    ELSE LET d == DivRoundClosest(parent_rate, rate)
         IN  SetMuldiv(node, 1, IF d = 0 THEN 1 ELSE d)

\* ad9361_clk_factor_recalc_rate: decodes the bits, then scales the parent.
ClkFactorRecalcRate(node, parent_rate) ==
    LET n == GetClkScaler(node).node
    IN  [node |-> n, rate |-> (parent_rate * n.mult) \div n.div,
         log |-> << <<"r", ScalerField(node.source)>> >>]

\* ad9361_clk_factor_round_rate: ret is -EINVAL or OK with the rate.
ClkFactorRoundRate(node, rate, prate, bypass_fir, und) ==
    LET n == FactorMuldiv(node, rate, prate)
        s == SetClkScaler(n, FALSE, bypass_fir, und)
    IN  [ret |-> s.ret, node |-> s.node, log |-> s.log,
         rate |-> IF s.ret = OK THEN (prate \div n.div) * n.mult ELSE 0]

\* ad9361_clk_factor_set_rate.
ClkFactorSetRate(node, rate, parent_rate, bypass_fir, und) ==
    SetClkScaler(FactorMuldiv(node, rate, parent_rate), TRUE, bypass_fir, und)

\* The scale bits the field of a node can hold.
ScaleBitsOf(source) ==
    CASE source \in RefclkSources -> 0..3
      [] source = "ADC_CLK" -> 1..6
      [] source \in {"R2_CLK", "T2_CLK"} -> 0..2
      [] source \in {"RX_SAMPL_CLK", "TX_SAMPL_CLK"} -> 0..3
      [] OTHER -> 0..1

\* The scaler nodes a clock call may find: any kind, any scale bits in the
\* field, the cache as the last decoding left it.
ScalerNodes ==
    {GetClkScaler([ClkBoot EXCEPT !.source = src, !.scale = b,
                                  !.bypass_fir = byp]).node :
        src \in ScalerSources, b \in 0..6, byp \in BOOLEAN} \cap
    {n \in [source : ScalerSources, scale : 0..6, mult : 1..2, div : 1..64,
            bypass_fir : BOOLEAN, integer : {0}, fract : {0}, vco_div : {0},
            profile : {0}, profile_other : {0},
            fastlock : {ClkBoot.fastlock}] :
        /\ n.scale \in ScaleBitsOf(n.source)
        /\ n.source \notin {"RX_SAMPL_CLK", "TX_SAMPL_CLK"} => n.bypass_fir}

\* Parent rates of the calls: a reference clock, a sample clock, a converter
\* clock and a PLL rate.
ClkParents == {40000000, 61440000, 245760000, 983040000}

\* The rates asked for under a parent rate: integer ratios the scalers can
\* and cannot do, a doubling, ratios beyond 8 bits and odd rates.
ClkRatesOf(prate) ==
    {prate \div d : d \in {1, 2, 3, 4, 6, 64}} \cup
    {100000000, 3840000, 3810233} \cup
    (IF prate <= 61440000 THEN {2 * prate} ELSE {})

\* What ilog2(0) may give.
IlogUndef == {-1, 0}

\* No clock-node call in progress leaves these fields of calc unset.
Unset == "unset"

\* round_rate on the scaler node.
ScalerRoundRate ==
    /\ calc = NoCalc
    /\ clk.source \in ScalerSources
    /\ \E prate \in ClkParents : \E rate \in ClkRatesOf(prate) :
       \E und \in IlogUndef :
          LET r == ClkFactorRoundRate(clk, rate, prate, clk.bypass_fir, und)
          IN  /\ DivRoundClosest(prate, rate) % 256 # 0 => und = -1
              /\ clk' = r.node
              /\ wlog' = r.log
              /\ calc' = [op |-> "round_rate", rate |-> rate, prate |-> prate,
                          und |-> und, f |-> Unset, round_ret |-> r.ret,
                          rounded |-> r.rate, set_ret |-> Unset,
                          out |-> Unset]
    /\ UNCHANGED <<phy, regs, dev_ensm_state, last, cal>>

\* set_rate with the arguments of the round_rate before it.
ScalerSetRate ==
    /\ calc.op = "round_rate"
    /\ clk.source \in ScalerSources
    /\ LET s == ClkFactorSetRate(clk, calc.rate, calc.prate, clk.bypass_fir,
                                 calc.und)
       IN  /\ clk' = s.node
           /\ wlog' = s.log
           /\ calc' = [calc EXCEPT !.op = "set_rate", !.set_ret = s.ret]
    /\ UNCHANGED <<phy, regs, dev_ensm_state, last, cal>>

\* recalc_rate after the set_rate, under the same parent rate.
ScalerRecalcRate ==
    /\ calc.op = "set_rate"
    /\ clk.source \in ScalerSources
    /\ LET g == ClkFactorRecalcRate(clk, calc.prate)
       IN  /\ clk' = g.node
           /\ wlog' = g.log
           /\ calc' = [calc EXCEPT !.op = "recalc_rate", !.out = g.rate]
    /\ UNCHANGED <<phy, regs, dev_ensm_state, last, cal>>

(***************************************************************************)
(* 64-bit arithmetic                                                       *)
(*                                                                         *)
(* The PLL code computes in uint64_t.  A 64-bit value is a sequence of 16  *)
(* hexadecimal digits, lowest first; a carry out of the top digit is       *)
(* dropped, as the machine drops it.  The small operand of a product or a  *)
(* quotient is below 2^27, so that no step leaves 31 bits.                 *)
(***************************************************************************)

\* The 64-bit value of an integer in 0..2^31-1.
U64(n) == [i \in 1..16 |-> IF i <= 8 THEN (n \div 16^(i - 1)) % 16 ELSE 0]

\* The integer of a 64-bit value, in its low 31 bits.
U64ToInt(a) ==
    a[1] + 16 * (a[2] + 16 * (a[3] + 16 * (a[4] + 16 * (a[5]
         + 16 * (a[6] + 16 * (a[7] + 16 * (a[8] % 8)))))))

\* (uint32_t)a.
U64Low32(a) == [i \in 1..16 |-> IF i <= 8 THEN a[i] ELSE 0]

\* The digit loops below carry their state <<operands, position, carry,
\* digits so far>> from one digit to the next.
RECURSIVE U64MulFrom(_)
U64MulFrom(st) ==
    IF st[3] > 16 THEN st[5]
    ELSE LET t == st[1][st[3]] * st[2] + st[4]
         IN  U64MulFrom(<<st[1], st[2], st[3] + 1, t \div 16,
                          Append(st[5], t % 16)>>)

\* a * k.
U64Mul(a, k) == U64MulFrom(<<a, k, 1, 0, <<>>>>)

RECURSIVE U64AddFrom(_)
U64AddFrom(st) ==
    IF st[3] > 16 THEN st[5]
    ELSE LET t == st[1][st[3]] + st[2][st[3]] + st[4]
         IN  U64AddFrom(<<st[1], st[2], st[3] + 1, t \div 16,
                          Append(st[5], t % 16)>>)

\* a + b.
U64Add(a, b) == U64AddFrom(<<a, b, 1, 0, <<>>>>)

RECURSIVE U64SubFrom(_)
U64SubFrom(st) ==
    IF st[3] > 16 THEN st[5]
    ELSE LET t == st[1][st[3]] - st[2][st[3]] - st[4]
         IN  U64SubFrom(<<st[1], st[2], st[3] + 1, IF t < 0 THEN 1 ELSE 0,
                          Append(st[5], t % 16)>>)

\* a - b.
U64Sub(a, b) == U64SubFrom(<<a, b, 1, 0, <<>>>>)

RECURSIVE U64DivFrom(_)
U64DivFrom(st) ==
    IF st[3] = 0 THEN [q |-> st[5], r |-> st[4]]
    ELSE LET cur == st[4] * 16 + st[1][st[3]]
         IN  U64DivFrom(<<st[1], st[2], st[3] - 1, cur % st[2],
                          <<cur \div st[2]>> \o st[5]>>)

\* do_div: the quotient q and the remainder r of a by d.
U64Div(a, d) == U64DivFrom(<<a, d, 16, 0, <<>>>>)

RECURSIVE U64LeFrom(_, _, _)
U64LeFrom(a, b, i) ==
    IF i = 0 THEN TRUE
    ELSE IF a[i] # b[i] THEN a[i] < b[i]
    ELSE U64LeFrom(a, b, i - 1)

\* a <= b.
U64Le(a, b) == U64LeFrom(a, b, 16)

\* |a - b| as an integer.
U64Dist(a, b) == U64ToInt(IF U64Le(a, b) THEN U64Sub(b, a) ELSE U64Sub(a, b))

\* A frequency given as MHz and Hz.
Hz(mhz, hz) == U64Add(U64Mul(U64(mhz), 1000000), U64(hz))

(***************************************************************************)
(* Baseband PLL and RF synthesizer nodes                                   *)
(***************************************************************************)

BBPLL_MODULUS == 2088960
MIN_BBPLL_FREQ == 715000000
RFPLL_MODULUS == 8388593
MAX_CARRIER_FREQ_HZ == Hz(6000, 0)
MIN_CARRIER_FREQ_HZ == Hz(47, 0)
MIN_VCO_FREQ_HZ == Hz(6000, 0)

RfpllSources == {"RX_RFPLL", "TX_RFPLL"}

\* ad9361_to_clk: the frequency in units of 2 Hz, as a uint32_t.
ad9361_to_clk(freq) == U64Low32(U64Div(freq, 2).q)

\* ad9361_from_clk.
ad9361_from_clk(rate) == U64Mul(rate, 2)

\* ad9361_bbpll_round_rate: the rate the integer and fractional words of
\* the baseband PLL give; it reads and writes nothing of the node.
BbpllRoundRate(rate, prate) ==
    IF rate > MAX_BBPLL_FREQ THEN MAX_BBPLL_FREQ
    ELSE IF rate < MIN_BBPLL_FREQ THEN MIN_BBPLL_FREQ
    ELSE LET integer == rate \div prate
             rem     == rate % prate
             fract   == U64ToInt(U64Div(U64Add(U64Mul(U64(rem), BBPLL_MODULUS),
                                               U64(prate \div 2)), prate).q)
             tmp     == U64Div(U64Mul(U64(prate), fract), BBPLL_MODULUS).q
         IN  U64ToInt(U64Add(tmp, U64(prate * integer)))

\* ad9361_rfpll_round_rate: the rate itself when the carrier is legal.
RfpllRoundRate(rate) ==
    IF \/ ~U64Le(ad9361_from_clk(rate), MAX_CARRIER_FREQ_HZ)
       \/ ~U64Le(MIN_CARRIER_FREQ_HZ, ad9361_from_clk(rate))
    THEN [ret |-> EINVAL, rate |-> U64(0)]
    ELSE [ret |-> OK, rate |-> rate]

\* The loop that doubles the frequency until it is above MIN_VCO_FREQ_HZ.
RECURSIVE VcoShift(_, _)
\* VcoShift whose loop never runs.
VcoShiftNoLoop(freq, div) == [freq |-> freq, div |-> div]

VcoShift(freq, div) ==
    IF U64Le(freq, MIN_VCO_FREQ_HZ) THEN VcoShift(U64Mul(freq, 2), div + 1)
    ELSE [freq |-> freq, div |-> div]

\* ad9361_calc_rfpll_divder.
\* CalcRfpllDivder without the test of the carrier range.
CalcRfpllDivderNoRange(freq, parent_rate) ==
    IF FALSE
    THEN [ret |-> EINVAL]
    ELSE LET v   == VcoShift(freq, -1)
             d   == U64Div(v.freq, parent_rate)
             tmp == U64Div(U64Add(U64Mul(U64(d.r), RFPLL_MODULUS),
                                  U64(parent_rate \div 2)), parent_rate).q
         IN  [ret |-> OK, integer |-> U64ToInt(U64Low32(d.q)),
              fract |-> U64ToInt(U64Low32(tmp)), vco_div |-> v.div,
              vco_freq |-> v.freq]

CalcRfpllDivder(freq, parent_rate) ==
    IF ~U64Le(freq, MAX_CARRIER_FREQ_HZ) \/ ~U64Le(MIN_CARRIER_FREQ_HZ, freq)
    THEN [ret |-> EINVAL]
    ELSE LET v   == VcoShift(freq, -1)
             d   == U64Div(v.freq, parent_rate)
             tmp == U64Div(U64Add(U64Mul(U64(d.r), RFPLL_MODULUS),
                                  U64(parent_rate \div 2)), parent_rate).q
         IN  [ret |-> OK, integer |-> U64ToInt(U64Low32(d.q)),
              fract |-> U64ToInt(U64Low32(tmp)), vco_div |-> v.div,
              vco_freq |-> v.freq]

\* ad9361_calc_rfpll_freq with the output divider one stage short.
CalcRfpllFreqShortShift(parent_rate, integer, fract, vco_div) ==
    LET rate == U64Add(U64Div(U64Mul(U64(parent_rate), fract), RFPLL_MODULUS).q,
                       U64Mul(U64(parent_rate), integer))
    IN  U64Div(rate, 2^vco_div).q

\* ad9361_calc_rfpll_freq.
CalcRfpllFreq(parent_rate, integer, fract, vco_div) ==
    LET rate == U64Add(U64Div(U64Mul(U64(parent_rate), fract), RFPLL_MODULUS).q,
                       U64Mul(U64(parent_rate), integer))
    IN  U64Div(rate, 2^(vco_div + 1)).q

\* ad9361_rfpll_recalc_rate: from the fast-lock profile in use, else from
\* the words and the VCO divider in the registers.
RfpllRecalcRate(node, parent_rate) ==
    LET w == IF node.profile # 0 THEN node.fastlock
             ELSE [integer |-> node.integer, fract |-> node.fract,
                   vco_div |-> node.vco_div]
    IN  ad9361_to_clk(CalcRfpllFreq(parent_rate, w.integer, w.fract,
                                    w.vco_div))

\* A recalibration decided for every node that finds the carrier moved.
RfpllRecalAnyNode(node, hw) == hw.recal

\* Whether ad9361_rfpll_set_rate runs the TX quadrature calibration: only on
\* the TX synthesizer, and only with hw.recal, which says that phy has
\* auto_cal_en set and that the comparison of the code finds the carrier more
\* than cal_threshold_freq away from last_tx_quad_cal_freq.
RfpllRecal(node, hw) == node.source = "TX_RFPLL" /\ hw.recal

\* FastlockPrepare that leaves the active-profile index as it was.
FastlockPrepareKeepsProfile(node, tx, profile, prepare) ==
    LET side == IF tx THEN "TX" ELSE "RX"
        R(name) == <<"REG_" \o side \o name, 1>>
        F(name, field) == <<"REG_" \o side \o name, field>>
        is_prepared == node.profile # 0
    IN  IF prepare /\ ~is_prepared
        THEN [node |-> node,
              log |-> << <<"w", R("_FAST_LOCK_SETUP_INIT_DELAY"), "fastlock_delay_ns / 250">>,
                         <<"w", R("_FAST_LOCK_SETUP"),
                           {"RX_FAST_LOCK_PROFILE(profile)", "RX_FAST_LOCK_MODE_ENABLE"}>>,
                         <<"w", R("_FAST_LOCK_PROGRAM_CTRL"), {}>>,
                         <<"w", <<"REG_ENSM_CONFIG_2", side \o "_SYNTH_READY_MASK">>, 1>>,
                         <<"call", "ad9361_trx_vco_cal_control", FALSE>> >>]
        ELSE IF ~prepare /\ is_prepared
        THEN [node |-> node,
              log |-> << <<"w", R("_FAST_LOCK_SETUP"), {}>>,
                         <<"w", F("_FORCE_ALC", "FORCE_ALC_ENABLE"), 1>>,
                         <<"w", F("_FORCE_VCO_TUNE_1", "FORCE_VCO_TUNE"), 1>>,
                         <<"w", F("_FORCE_ALC", "FORCE_ALC_ENABLE"), 0>>,
                         <<"w", F("_FORCE_VCO_TUNE_1", "FORCE_VCO_TUNE"), 0>>,
                         <<"call", "ad9361_trx_vco_cal_control", TRUE>>,
                         <<"w", <<"REG_ENSM_CONFIG_2", side \o "_SYNTH_READY_MASK">>, 0>> >>]
        ELSE [node |-> node, log |-> <<>>]

\* ad9361_fastlock_prepare on the synthesizer of the node (tx: the TX one):
\* enters fast-lock mode with a profile, or leaves it and clears the
\* active-profile index of that synthesizer; the other synthesizer's index
\* is not touched.  The registers of the TX synthesizer are those of the RX
\* one at a fixed offset.
FastlockPrepare(node, tx, profile, prepare) ==
    LET side == IF tx THEN "TX" ELSE "RX"
        R(name) == <<"REG_" \o side \o name, 1>>
        F(name, field) == <<"REG_" \o side \o name, field>>
        is_prepared == node.profile # 0
    IN  IF prepare /\ ~is_prepared
        THEN [node |-> node,
              log |-> << <<"w", R("_FAST_LOCK_SETUP_INIT_DELAY"), "fastlock_delay_ns / 250">>,
                         <<"w", R("_FAST_LOCK_SETUP"),
                           {"RX_FAST_LOCK_PROFILE(profile)", "RX_FAST_LOCK_MODE_ENABLE"}>>,
                         <<"w", R("_FAST_LOCK_PROGRAM_CTRL"), {}>>,
                         <<"w", <<"REG_ENSM_CONFIG_2", side \o "_SYNTH_READY_MASK">>, 1>>,
                         <<"call", "ad9361_trx_vco_cal_control", FALSE>> >>]
        ELSE IF ~prepare /\ is_prepared
        THEN [node |-> [node EXCEPT !.profile = 0],
              log |-> << <<"w", R("_FAST_LOCK_SETUP"), {}>>,
                         <<"w", F("_FORCE_ALC", "FORCE_ALC_ENABLE"), 1>>,
                         <<"w", F("_FORCE_VCO_TUNE_1", "FORCE_VCO_TUNE"), 1>>,
                         <<"w", F("_FORCE_ALC", "FORCE_ALC_ENABLE"), 0>>,
                         <<"w", F("_FORCE_VCO_TUNE_1", "FORCE_VCO_TUNE"), 0>>,
                         <<"call", "ad9361_trx_vco_cal_control", TRUE>>,
                         <<"w", <<"REG_ENSM_CONFIG_2", side \o "_SYNTH_READY_MASK">>, 0>> >>]
        ELSE [node |-> node, log |-> <<>>]

\* ad9361_rfpll_set_rate on the device m: leaves fast-lock, computes the
\* words, programs the VCO tables, writes the five word bytes and the VCO
\* divider, loads the gain table (RX) or, when RfpllRecal says so, runs
\* ad9361_do_calib_run for TX_QUAD_CAL, whose transactions are kept with the
\* call, and waits for the VCO lock (hw.locked: the lock bit came up; hw.q:
\* what the hardware does during the calibration).
RfpllSetRate(m, node, rate, parent_rate, hw) ==
    LET c == CalcRfpllDivder(ad9361_from_clk(rate), parent_rate)
        fp == FastlockPrepare(node, node.source = "TX_RFPLL", 0, FALSE)
        n == fp.node
        prepare == IF fp.log = <<>> THEN <<>>
                   ELSE << <<"call", "ad9361_fastlock_prepare", fp.log>> >>
        recal == RfpllRecal(node, hw)
        mb == IF recal THEN DoCalibRun([m EXCEPT !.log = <<>>], hw.q) ELSE m
    IN  IF c.ret # OK
        THEN [ret |-> c.ret, node |-> n, log |-> prepare, m |-> m]
        ELSE [ret |-> IF hw.locked THEN OK ELSE ETIMEDOUT,
              node |-> [n EXCEPT !.fract = c.fract % 16777216,
                                 !.integer = c.integer % 65536,
                                 !.vco_div = c.vco_div % 16],
              log |-> prepare \o
                      << <<"call", "ad9361_rfpll_vco_init">>,
                         <<"w", <<IF node.source = "RX_RFPLL"
                                  THEN "REG_RX_FRACT_BYTE_2"
                                  ELSE "REG_TX_FRACT_BYTE_2", 5>>,
                           <<c.fract % 16777216, c.integer % 65536>> >>,
                         <<"w", <<"REG_RFPLL_DIVIDERS",
                                  IF node.source = "RX_RFPLL"
                                  THEN "RX_VCO_DIVIDER" ELSE "TX_VCO_DIVIDER">>,
                           c.vco_div % 16>> >>
                      \o (IF node.source = "RX_RFPLL"
                          THEN << <<"call", "ad9361_load_gt">> >>
                          ELSE <<>>)
                      \o (IF recal
                          THEN << <<"call", "ad9361_do_calib_run", mb.log>> >>
                          ELSE <<>>)
                      \o << <<"call", "ad9361_check_cal_done">> >>,
              m |-> [mb EXCEPT !.log = <<>>,
                               !.phy.last_tx_quad_cal_freq =
                                   IF recal THEN ad9361_from_clk(rate)
                                   ELSE @]]

\* clamp(val, lo, hi)
Clamp(val, lo, hi) == IF val < lo THEN lo ELSE IF val > hi THEN hi ELSE val

\* ad9361_bbpll_set_rate: the charge-pump current, the loop filter, the
\* integer and fractional words, the start of the VCO calibration and the
\* poll of the lock bit (locked: it locks within the budget).
\* BbpllSetRate that polls for lock before it writes the frequency words.
BbpllSetRatePollFirst(node, rate, parent_rate, locked) ==
    LET tmp0    == (rate \div 128) * 150
        tmp1    == tmp0 \div ((parent_rate \div 128) * 32 + tmp0 \div 2)
        icp_val == Clamp(DivRoundClosest(tmp1, 25) - 1, 1, 64)
        integer == rate \div parent_rate
        rem     == rate % parent_rate
        fract   == U64ToInt(U64Div(U64Add(U64Mul(U64(rem), BBPLL_MODULUS),
                                          U64(parent_rate \div 2)), parent_rate).q)
    IN  [ret |-> IF locked THEN OK ELSE ETIMEDOUT,
         node |-> [node EXCEPT !.integer = integer % 256,
                               !.fract = fract % 16777216],
         log |-> << <<"w", <<"REG_CP_CURRENT", 1>>, icp_val>>,
                    <<"w", <<"REG_LOOP_FILTER_3", 3>>, <<53, 91, 232>> >>,
                    <<"w", <<"REG_VCO_CTRL", 1>>,
                      {"FREQ_CAL_ENABLE", "FREQ_CAL_COUNT_LENGTH(3)"}>>,
                    <<"w", <<"REG_SDM_CTRL", 1>>, 16>>,
                    <<"call", "ad9361_check_cal_done">>,
                    <<"w", <<"REG_INTEGER_BB_FREQ_WORD", 1>>, integer % 256>>,
                    <<"w", <<"REG_FRACT_BB_FREQ_WORD_3", 1>>, fract % 256>>,
                    <<"w", <<"REG_FRACT_BB_FREQ_WORD_2", 1>>, (fract \div 256) % 256>>,
                    <<"w", <<"REG_FRACT_BB_FREQ_WORD_1", 1>>, (fract \div 65536) % 256>>,
                    <<"w", <<"REG_SDM_CTRL_1", 1>>, {"INIT_BB_FO_CAL", "BBPLL_RESET_BAR"}>>,
                    <<"w", <<"REG_SDM_CTRL_1", 1>>, {"BBPLL_RESET_BAR"}>>,
                    <<"w", <<"REG_VCO_PROGRAM_1", 1>>, 134>>,
                    <<"w", <<"REG_VCO_PROGRAM_2", 1>>, 1>>,
                    <<"w", <<"REG_VCO_PROGRAM_2", 1>>, 5>> >>]

BbpllSetRate(node, rate, parent_rate, locked) ==
    LET tmp0    == (rate \div 128) * 150
        tmp1    == tmp0 \div ((parent_rate \div 128) * 32 + tmp0 \div 2)
        icp_val == Clamp(DivRoundClosest(tmp1, 25) - 1, 1, 64)
        integer == rate \div parent_rate
        rem     == rate % parent_rate
        fract   == U64ToInt(U64Div(U64Add(U64Mul(U64(rem), BBPLL_MODULUS),
                                          U64(parent_rate \div 2)), parent_rate).q)
    IN  [ret |-> IF locked THEN OK ELSE ETIMEDOUT,
         node |-> [node EXCEPT !.integer = integer % 256,
                               !.fract = fract % 16777216],
         log |-> << <<"w", <<"REG_CP_CURRENT", 1>>, icp_val>>,
                    <<"w", <<"REG_LOOP_FILTER_3", 3>>, <<53, 91, 232>> >>,
                    <<"w", <<"REG_VCO_CTRL", 1>>,
                      {"FREQ_CAL_ENABLE", "FREQ_CAL_COUNT_LENGTH(3)"}>>,
                    <<"w", <<"REG_SDM_CTRL", 1>>, 16>>,
                    <<"w", <<"REG_INTEGER_BB_FREQ_WORD", 1>>, integer % 256>>,
                    <<"w", <<"REG_FRACT_BB_FREQ_WORD_3", 1>>, fract % 256>>,
                    <<"w", <<"REG_FRACT_BB_FREQ_WORD_2", 1>>, (fract \div 256) % 256>>,
                    <<"w", <<"REG_FRACT_BB_FREQ_WORD_1", 1>>, (fract \div 65536) % 256>>,
                    <<"w", <<"REG_SDM_CTRL_1", 1>>, {"INIT_BB_FO_CAL", "BBPLL_RESET_BAR"}>>,
                    <<"w", <<"REG_SDM_CTRL_1", 1>>, {"BBPLL_RESET_BAR"}>>,
                    <<"w", <<"REG_VCO_PROGRAM_1", 1>>, 134>>,
                    <<"w", <<"REG_VCO_PROGRAM_2", 1>>, 1>>,
                    <<"w", <<"REG_VCO_PROGRAM_2", 1>>, 5>>,
                    <<"call", "ad9361_check_cal_done">> >>]

\* What the hardware does during the quadrature calibration a commit of the
\* TX synthesizer runs: it converges, or its first run times out.
CommitScenarios ==
    { [NoQ EXCEPT !.cal = "TX_QUAD_CAL", !.run1 = r] : r \in BOOLEAN }


\* The baseband PLL node, and the RF synthesizer nodes as a clock call may
\* find them: tuned to 2.4 GHz from a 40 MHz reference, with or without a
\* fast-lock profile in use.
PllNodes ==
    {[ClkBoot EXCEPT !.source = "BBPLL_CLK"]} \cup
    {[ClkBoot EXCEPT !.source = src, !.integer = 240, !.fract = 0,
                     !.vco_div = 1, !.profile = prof,
                     !.fastlock = [integer |-> 150, fract |-> 4194296,
                                   vco_div |-> 0]] :
        src \in RfpllSources, prof \in {0, 1}}

\* Reference rates of the PLLs.
PllParents == {10000000, 19200000, 40000000, 80000000}

\* Rates asked of the baseband PLL: below, inside and above its range.
BbpllRates == {700000000, 715000000, 983040000, 1000000001, 1228800000,
               1430000000, 1430000001}

\* Carrier frequencies: the limits of the legal range, one below and one
\* above it, round values and odd ones.
Carriers ==
    {Hz(c[1], c[2]) :
        c \in {<<46, 999998>>, <<47, 0>>, <<70, 0>>, <<93, 750000>>,
               <<100, 1>>, <<248, 56511>>, <<800, 123457>>, <<1500, 0>>,
               <<2400, 0>>, <<3000, 0>>, <<3357, 902567>>, <<4610, 671633>>,
               <<4919, 57333>>, <<5999, 999999>>, <<6000, 0>>, <<6000, 2>>}}

\* round_rate on the baseband PLL node.
BbpllRound ==
    /\ calc = NoCalc
    /\ clk.source = "BBPLL_CLK"
    /\ \E prate \in PllParents : \E rate \in BbpllRates :
          calc' = [op |-> "round_rate", rate |-> rate, prate |-> prate,
                   und |-> -1, f |-> Unset, round_ret |-> OK,
                   rounded |-> BbpllRoundRate(rate, prate),
                   set_ret |-> Unset, out |-> Unset, recal |-> FALSE,
                   locked |-> FALSE]
    /\ wlog' = <<>>
    /\ UNCHANGED <<phy, regs, dev_ensm_state, last, cal, clk>>

\* round_rate on an RF synthesizer node, for a carrier f.
RfpllRoundOf(parents, carriers) ==
    /\ calc = NoCalc
    /\ clk.source \in RfpllSources
    /\ \E prate \in parents : \E f \in carriers :
          LET r == RfpllRoundRate(ad9361_to_clk(f))
          IN  calc' = [op |-> "round_rate", rate |-> ad9361_to_clk(f),
                       prate |-> prate, und |-> -1, f |-> f,
                       round_ret |-> r.ret, rounded |-> r.rate,
                       set_ret |-> Unset, out |-> Unset, recal |-> FALSE,
                   locked |-> FALSE]
    /\ wlog' = <<>>
    /\ UNCHANGED <<phy, regs, dev_ensm_state, last, cal, clk>>

RfpllRound == RfpllRoundOf(PllParents, Carriers)

\* set_rate on the baseband PLL node with the arguments of the round_rate
\* before it.
BbpllSet ==
    /\ calc.op = "round_rate"
    /\ clk.source = "BBPLL_CLK"
    /\ \E locked \in BOOLEAN :
          LET s == BbpllSetRate(clk, calc.rate, calc.prate, locked)
          IN  /\ clk' = s.node
              /\ wlog' = s.log
              /\ calc' = [calc EXCEPT !.op = "set_rate", !.set_ret = s.ret,
                                      !.locked = locked]
    /\ UNCHANGED <<phy, regs, dev_ensm_state, last, cal>>

\* set_rate on an RF synthesizer node with the arguments of the round_rate
\* before it, recals saying whether a recalibration is due.
RfpllSetWith(recals) ==
    /\ calc.op = "round_rate"
    /\ clk.source \in RfpllSources
    /\ \E locked \in BOOLEAN, recal \in recals :
          \E q \in IF recal THEN CommitScenarios ELSE {NoQ} :
          \E s \in {RfpllSetRate(Machine, clk, calc.rate, calc.prate,
                                 [locked |-> locked, recal |-> recal, q |-> q])} :
              /\ clk' = s.node
              /\ wlog' = s.log
              /\ calc' = [calc EXCEPT !.op = "set_rate", !.set_ret = s.ret,
                                      !.recal = recal, !.locked = locked]
              /\ phy' = s.m.phy
              /\ regs' = s.m.regs
              /\ dev_ensm_state' = s.m.hw
    /\ UNCHANGED <<last, cal>>

\* set_rate while no recalibration is due.
RfpllSet == RfpllSetWith({FALSE})

\* recalc_rate after the set_rate, under the same parent rate.
RfpllRecalc ==
    /\ calc.op = "set_rate"
    /\ clk.source \in RfpllSources
    /\ calc' = [calc EXCEPT !.op = "recalc_rate",
                            !.out = RfpllRecalcRate(clk, calc.prate)]
    /\ wlog' = << <<"r", IF clk.source = "RX_RFPLL" THEN "REG_RX_FRACT_BYTE_2"
                         ELSE "REG_TX_FRACT_BYTE_2">>,
                  <<"r", "REG_RFPLL_DIVIDERS">> >>
    /\ UNCHANGED <<phy, regs, dev_ensm_state, last, cal, clk>>

InitClk == InitDevice /\ clk \in ScalerNodes \cup PllNodes

NextClk ==
    \/ ScalerRoundRate \/ ScalerSetRate \/ ScalerRecalcRate
    \/ BbpllRound \/ BbpllSet \/ RfpllRound \/ RfpllSet \/ RfpllRecalc
    \/ CalcReturn

SpecClk == InitClk /\ [][NextClk]_vars

\* C17: for every scaler node kind, parent rate and rate asked for, when
\* set_rate has succeeded the rate recomputed from the scale bits it wrote
\* is the rate round_rate returned for the same arguments.
C17_SetCommitsRoundedRate ==
    (calc.op = "recalc_rate" /\ clk.source \in ScalerSources
        /\ calc.set_ret = OK) =>
        /\ calc.round_ret = OK
        /\ calc.out = calc.rounded

\* C18: round_rate on any clock node (scaler, baseband PLL, RF synthesizer)
\* writes no register and leaves the device and the node as they were,
\* the multiplier and divisor cached in the node included.
C18_RoundRateHasNoEffect ==
    [][(calc = NoCalc /\ calc'.op = "round_rate") =>
          /\ clk' = clk
          /\ \A i \in 1..Len(wlog') : wlog'[i][1] # "w"
          /\ UNCHANGED <<phy, regs, dev_ensm_state>>]_vars

\* The round trip of C19 has been made: round_rate accepted the carrier,
\* set_rate succeeded and the rate has been recomputed from the registers.
C19_Case ==
    /\ calc.op = "recalc_rate"
    /\ clk.source \in RfpllSources
    /\ calc.round_ret = OK
    /\ calc.set_ret = OK

\* The distance in Hz of the recomputed carrier from the carrier asked for.
C19_Error == U64Dist(calc.f, ad9361_from_clk(calc.out))

\* C19 (as stated): the recomputed carrier is within one step of the
\* fractional word, parent rate / RFPLL_MODULUS, of the carrier asked for.
C19_AsStated ==
    C19_Case =>
        /\ C19_Error <= 64
        /\ C19_Error * RFPLL_MODULUS <= calc.prate

\* C19 (amended): the recomputed carrier is within one step of the
\* fractional word plus 3 Hz of the carrier asked for.
C19_WithinStepPlus3Hz ==
    C19_Case =>
        /\ C19_Error <= 64
        /\ (C19_Error - 3) * RFPLL_MODULUS <= calc.prate

\* A round trip from a 10 MHz reference has come back 3 Hz off.
C19_Witness ==
    /\ C19_Case
    /\ calc.prate = 10000000
    /\ C19_Error = 3

(***************************************************************************)
(* ad9361_find_opt                                                         *)
(***************************************************************************)

\* The loop of ad9361_find_opt keeping the last of the longest runs.
RECURSIVE FindOptLoopLastRun(_)
FindOptLoopLastRun(st) ==
    LET field == st[1]  i == st[2]  cnt == st[3]  max_cnt == st[4]
        start == st[5]  max_start == st[6]
    IN  IF i >= Len(field)
        THEN IF cnt >= max_cnt /\ cnt > 0
             THEN [ret |-> cnt, start |-> start]
             ELSE [ret |-> max_cnt, start |-> max_start]
        ELSE IF field[i + 1] = 0
        THEN FindOptLoopLastRun(<<field, i + 1, cnt + 1, max_cnt,
                                  IF start = -1 THEN i ELSE start,
                                  max_start>>)
        ELSE IF cnt >= max_cnt /\ cnt > 0
        THEN FindOptLoopLastRun(<<field, i + 1, 0, cnt, -1, start>>)
        ELSE FindOptLoopLastRun(<<field, i + 1, 0, max_cnt, -1, max_start>>)

\* The loop of ad9361_find_opt from the state <<field, i, cnt, max_cnt,
\* start, max_start>>, and the test after it; field[i] of the code is
\* field[i + 1] here.
RECURSIVE FindOptLoop(_)
FindOptLoop(st) ==
    LET field == st[1]  i == st[2]  cnt == st[3]  max_cnt == st[4]
        start == st[5]  max_start == st[6]
    IN  IF i >= Len(field)
        THEN IF cnt > max_cnt
             THEN [ret |-> cnt, start |-> start]
             ELSE [ret |-> max_cnt, start |-> max_start]
        ELSE IF field[i + 1] = 0
        THEN FindOptLoop(<<field, i + 1, cnt + 1, max_cnt,
                           IF start = -1 THEN i ELSE start, max_start>>)
        ELSE IF cnt > max_cnt
        THEN FindOptLoop(<<field, i + 1, 0, cnt, -1, start>>)
        ELSE FindOptLoop(<<field, i + 1, 0, max_cnt, -1, max_start>>)

\* ad9361_find_opt: ret is the value returned, start what *ret_start gets.
FindOpt(field) == FindOptLoop(<<field, 0, 0, 0, -1, 0>>)

MaxFieldLen == 6

\* The 10-entry array of the example.
ExampleField == <<1, 1, 0, 0, 0, 1, 1, 1, 0, 0>>

\* The marker arrays searched: every 0/1 array up to MaxFieldLen entries,
\* and the example.
Fields ==
    UNION {[1..n -> {0, 1}] : n \in 0..MaxFieldLen} \cup {ExampleField}

FindOptCall ==
    /\ calc = NoCalc
    /\ \E field \in Fields :
          calc' = [op |-> "find_opt", field |-> field, out |-> FindOpt(field)]
    /\ UNCHANGED <<phy, regs, dev_ensm_state, wlog, last, cal, clk>>

NextOpt == FindOptCall \/ CalcReturn

SpecOpt == Init /\ [][NextOpt]_vars

\* field has a run of l zeros starting at index s (counted from 0).
ZeroRun(field, s, l) ==
    /\ l >= 1
    /\ s >= 0
    /\ s + l <= Len(field)
    /\ \A k \in (s + 1)..(s + l) : field[k] = 0

\* The length of the longest run of zeros of field, 0 without a zero.
LongestRun(field) ==
    LET ls == {l \in 1..Len(field) :
                  \E s \in 0..Len(field) : ZeroRun(field, s, l)}
    IN  IF ls = {} THEN 0 ELSE CHOOSE l \in ls : \A m \in ls : m <= l

\* The lowest start of a run of that length, 0 without a zero.
FirstLongestRun(field) ==
    LET l  == LongestRun(field)
        ss == {s \in 0..Len(field) : ZeroRun(field, s, l)}
    IN  IF l = 0 THEN 0 ELSE CHOOSE s \in ss : \A t \in ss : s <= t

\* C20: for every array of 0/1 markers ad9361_find_opt returns the length
\* of the longest run of zeros and stores the lowest start among the runs of
\* that length (length 0 and start 0 without a zero); for
\* [1,1,0,0,0,1,1,1,0,0] that is start 2, length 3.
C20_LongestZeroRun ==
    calc.op = "find_opt" =>
        /\ calc.out.ret = LongestRun(calc.field)
        /\ calc.out.start = FirstLongestRun(calc.field)
        /\ calc.field = ExampleField =>
              (calc.out.start = 2 /\ calc.out.ret = 3)

\* The example array has been searched.
C20_Witness ==
    /\ calc.op = "find_opt"
    /\ calc.field = ExampleField
    /\ calc.out = [ret |-> 3, start |-> 2]

----------------------------------------------------------------------------
(* Properties of force_state and restore_prev_state                        *)

\* The register writes in a transaction log.
Writes(log) == {i \in 1..Len(log) : log[i][1] = "w"}

\* C21: ad9361_ensm_force_state always stores the ENSM state the hardware is
\* in when it is called as phy->prev_ensm_state, and a call that finds the
\* device already in the requested state writes no register.
C21_ForceSnapshotsAndSkips ==
    [][last'.op = "force_state" =>
          /\ phy'.prev_ensm_state = dev_ensm_state
          /\ (dev_ensm_state = last'.state => Writes(wlog') = {})]_vars

\* A force to the state the device is already in: snapshot taken, no write.
C21_Witness ==
    /\ last.op = "force_state"
    /\ last.state = dev_ensm_state
    /\ phy.prev_ensm_state = last.state
    /\ Writes(wlog) = {}
    /\ wlog # <<>>

\* C22: when ad9361_ensm_restore_prev_state has returned (it is the last call
\* of ad9361_do_calib_run that touches the snapshot), phy->prev_ensm_state
\* is not a state restore has a case for, so that a further restore with no
\* force before it writes no register.
C22_RestoreClearsSnapshot ==
    last.op = "do_calib_run" =>
        /\ phy.prev_ensm_state \notin ForceHandled
        /\ Writes(EnsmRestorePrevState(Machine).log) = {}


\* C23: ad9361_ensm_set_state called with a state its switch has no case for
\* (TX_FLUSH, RX_FLUSH, FDD_FLUSH, a reserved encoding) returns -EINVAL and
\* leaves phy->curr_ensm_state as it was.
C23_UnhandledStateRejected ==
    [][(last'.op = "set_state" /\ last'.state \notin SetStateHandled) =>
          /\ last'.ret = EINVAL
          /\ phy'.curr_ensm_state = phy.curr_ensm_state]_vars


----------------------------------------------------------------------------
(* The operations that wait on hardware, one poll per step                 *)

\* The operations are followed from wait to wait: calc holds the operation
\* and the wait it has reached, cal the poll loop of that wait (CalPoll).
\* The register traffic between two waits is that of TxQuadCalib,
\* TxQuadPhaseSearch, DoCalibRun and RfpllSetRate above.

\* ARRAY_SIZE(field) / 2 of ad9361_tx_quad_phase_search.
PhaseOffsets == 32

\* The register and bit a wait polls, and the state that ends it.
WaitOf(c) ==
    CASE c.pc = "run"  -> <<"REG_CALIBRATION_CTRL", c.mask>>
      [] c.pc = "rfdc" -> <<"REG_CALIBRATION_CTRL", "RFDC_CAL">>
      [] c.pc \in {"bw1_rx", "bw2_rx"} -> <<"REG_CALIBRATION_CTRL", "RX_BB_TUNE_CAL">>
      [] c.pc \in {"bw1_tx", "bw2_tx"} -> <<"REG_CALIBRATION_CTRL", "TX_BB_TUNE_CAL">>
      [] c.pc \in {"run1", "scan", "confirm1", "confirm2"} ->
            <<"REG_CALIBRATION_CTRL", "TX_QUAD_CAL">>
      [] c.pc = "lock" ->
            CASE c.op = "bbpll_set_rate" -> <<"REG_CH_1_OVERFLOW", "BBPLL_LOCK">>
              [] c.source = "RX_RFPLL" -> <<"REG_RX_CP_OVERRANGE_VCO_LOCK", "VCO_LOCK">>
              [] OTHER -> <<"REG_TX_CP_OVERRANGE_VCO_LOCK", "VCO_LOCK">>

\* ad9361_check_cal_done entered for the wait calc has reached.
WaitArm(c) ==
    IF c.pc = "return" THEN CalIdle
    ELSE [pc |-> "poll", reg |-> WaitOf(c)[1], mask |-> WaitOf(c)[2],
          timeout |-> CalTimeout, polls |-> 0, ret |-> OK]

\* What follows ad9361_tx_quad_calib returning ret: ad9361_do_calib_run
\* unwinds its bracket and returns to ad9361_rfpll_set_rate, which only logs
\* the result and polls the VCO lock.  The loop variable of the search is
\* gone with its frame.
TxQuadExit(c, ret) ==
    [c EXCEPT !.pc = "lock", !.i = 0, !.ret = CalibRunRet(ret, OK)]

\* The end of ad9361_tx_quad_calib: with the filter widened for the tone,
\* __ad9361_update_rf_bandwidth runs again and its result is dropped.
TxQuadLeave(c, ret) ==
    IF c.widen THEN [c EXCEPT !.pc = "bw2_rx", !.i = 0, !.ret = ret]
    ELSE TxQuadExit(c, ret)

\* The wait that follows the one that returned r; conv is what
\* REG_QUAD_CAL_STATUS_TX1 shows after the first run, whose result the
\* search, when it runs, replaces.
WaitNext(c, r, conv) ==
    CASE c.pc = "run"    -> [c EXCEPT !.pc = "return", !.ret = r]
      [] c.pc = "rfdc"   -> [c EXCEPT !.pc = "return", !.ret = CalibRunRet(r, OK)]
      [] c.pc = "lock"   -> [c EXCEPT !.pc = "return", !.ret = r]
      [] c.pc = "bw1_rx" -> IF IsErr(r) THEN TxQuadExit(c, r)
                            ELSE [c EXCEPT !.pc = "bw1_tx"]
      [] c.pc = "bw1_tx" -> IF IsErr(r) THEN TxQuadExit(c, r)
                            ELSE [c EXCEPT !.pc = "run1"]
      [] c.pc = "run1"   -> IF conv THEN TxQuadLeave(c, r)
                            ELSE [c EXCEPT !.pc = "scan", !.i = 0]
      [] c.pc = "scan"   -> IF IsErr(r) THEN TxQuadLeave(c, r)
                            ELSE IF c.i + 1 < PhaseOffsets
                            THEN [c EXCEPT !.i = @ + 1]
                            ELSE [c EXCEPT !.pc = "confirm1"]
      [] c.pc = "confirm1" -> [c EXCEPT !.pc = "confirm2"]
      [] c.pc = "confirm2" -> TxQuadLeave(c, r)
      [] c.pc = "bw2_rx" -> IF IsErr(r) THEN TxQuadExit(c, c.ret)
                            ELSE [c EXCEPT !.pc = "bw2_tx"]
      [] c.pc = "bw2_tx" -> TxQuadExit(c, c.ret)

\* An operation as it starts: where it first waits.  ad9361_do_calib_run is
\* called for RFDC_CAL and for a calibration it has no case for;
\* ad9361_rfpll_set_rate of the TX synthesizer with auto_cal_en set and the
\* carrier moved past cal_threshold_freq calls ad9361_do_calib_run for
\* TX_QUAD_CAL, and with it ad9361_tx_quad_calib, before it polls the lock.
WaitCalls ==
    { [op |-> "run_calibration", pc |-> "run", mask |-> k, source |-> "",
       widen |-> FALSE, i |-> 0, ret |-> OK] : k \in CalMasks }
    \cup { [op |-> "do_calib_run", pc |-> pc, mask |-> "", source |-> "",
            widen |-> FALSE, i |-> 0, ret |-> EINVAL] : pc \in {"rfdc", "return"} }
    \cup { [op |-> "bbpll_set_rate", pc |-> "lock", mask |-> "", source |-> "",
            widen |-> FALSE, i |-> 0, ret |-> OK] }
    \cup { [op |-> "rfpll_set_rate", pc |-> "lock", mask |-> "", source |-> src,
            widen |-> FALSE, i |-> 0, ret |-> OK] : src \in {"RX_RFPLL", "TX_RFPLL"} }
    \cup { [op |-> "rfpll_set_rate", pc |-> IF w THEN "bw1_rx" ELSE "run1",
            mask |-> "", source |-> "TX_RFPLL", widen |-> w, i |-> 0,
            ret |-> OK] : w \in BOOLEAN }

WaitCall ==
    /\ calc = NoCalc
    /\ cal = CalIdle
    /\ \E c \in WaitCalls :
          /\ calc' = c
          /\ cal' = WaitArm(c)
    /\ UNCHANGED <<phy, regs, dev_ensm_state, wlog, last, clk>>

\* ad9361_check_cal_done has returned: the operation goes on to its next
\* wait or to its return.
WaitStep ==
    /\ calc # NoCalc
    /\ cal.pc = "returned"
    /\ \E conv \in BOOLEAN :
          LET c == WaitNext(calc, cal.ret, conv)
          IN  /\ calc' = c
              /\ cal' = WaitArm(c)
    /\ UNCHANGED <<phy, regs, dev_ensm_state, wlog, last, clk>>

WaitReturn ==
    /\ calc # NoCalc
    /\ calc.pc = "return"
    /\ calc' = NoCalc
    /\ UNCHANGED <<phy, regs, dev_ensm_state, wlog, last, cal, clk>>

NextWait == WaitCall \/ CalPoll \/ WaitStep \/ WaitReturn

SpecWait == InitCal /\ [][NextWait]_vars

\* The waits an operation can still start after the one it has reached.
WaitsLeft(c) ==
    LET tail == 1
        bw2  == IF c.widen THEN 2 ELSE 0
    IN  CASE c.pc = "bw2_tx"   -> tail
          [] c.pc = "bw2_rx"   -> 1 + tail
          [] c.pc = "confirm2" -> bw2 + tail
          [] c.pc = "confirm1" -> 1 + bw2 + tail
          [] c.pc = "scan"     -> (PhaseOffsets - 1 - c.i) + 2 + bw2 + tail
          [] c.pc = "run1"     -> PhaseOffsets + 2 + bw2 + tail
          [] c.pc = "bw1_tx"   -> 1 + PhaseOffsets + 2 + bw2 + tail
          [] c.pc = "bw1_rx"   -> 2 + PhaseOffsets + 2 + bw2 + tail
          [] OTHER             -> 0

\* The steps a wait takes at most: CalTimeout + 1 polls and the step that
\* takes its result.
StepsPerWait == CalTimeout + 2

\* The steps the running operation takes at most before it has returned.
StepsLeft ==
    IF calc = NoCalc THEN 0
    ELSE 1 + WaitsLeft(calc) * StepsPerWait
           + (CASE cal.pc = "poll"     -> cal.timeout + 2
                [] cal.pc = "returned" -> 1
                [] OTHER               -> 0)

\* No operation starts more waits than the RF synthesizer's set_rate with a
\* quadrature calibration: two filter calibrations, the first run, the
\* offsets of the search and its two closing runs, two filter calibrations,
\* the VCO lock.
MaxWaits == PhaseOffsets + 8

\* C24: every operation that waits on hardware (run_calibration,
\* do_calib_run, the set_rate of the baseband PLL and of the RF synthesizers,
\* the quadrature calibration with its phase search) returns within a fixed
\* number of steps, whatever the polled bits do: the steps left are a natural
\* number within the budget, and every step of a running operation lowers it.
C24_WaitsAreBounded ==
    [][/\ StepsLeft' \in 0..(1 + MaxWaits * StepsPerWait)
       /\ (calc # NoCalc => StepsLeft' < StepsLeft)]_vars

\* The search has polled through the whole budget at its last offset.
C24_Witness ==
    /\ calc # NoCalc
    /\ calc.op = "rfpll_set_rate"
    /\ calc.pc = "scan"
    /\ calc.i = PhaseOffsets - 1
    /\ cal.pc = "returned"
    /\ cal.ret = ETIMEDOUT


----------------------------------------------------------------------------
(* ad9361_update_rf_bandwidth                                              *)

\* q.filt: what the filter calibrations of the new bandwidth do; the other
\* fields of q: what the quadrature calibration that follows does.
UpdateRfBandwidth(m, q) ==
    LET m1 == TrackingControl(m, FALSE, FALSE, FALSE)
        m2 == EnsmForceState(m1, "ALERT")
        m3 == UpdateRfBandwidthCalibs(m2, q.filt)
        m4 == TxQuadCalib(m3, q)
        m5 == TrackingControl(m4, m.phy.bbdc_track_en, m.phy.rfdc_track_en,
                              m.phy.quad_track_en)
        m6 == EnsmRestorePrevState(m5)
    IN  IF IsErr(m1.ret) THEN m1
        ELSE IF IsErr(m3.ret) THEN m3
        ELSE IF IsErr(m4.ret) THEN m4
        ELSE IF IsErr(m5.ret) THEN m5
        ELSE [m6 EXCEPT !.ret = OK]

\* What the hardware does during ad9361_update_rf_bandwidth: a filter
\* calibration times out, or the quadrature calibration runs in one of its
\* scenarios.
BwScenarios ==
    { [NoQ EXCEPT !.cal = "RF_BANDWIDTH", !.filt = f]
        : f \in {"rx_timeout", "tx_timeout"} }
    \cup { [q EXCEPT !.cal = "RF_BANDWIDTH"]
        : q \in {s \in CalScenarios : s.cal = "TX_QUAD_CAL"} }

RfBandwidth ==
    \E q \in BwScenarios :
        Commit(UpdateRfBandwidth(Machine, q), "update_rf_bandwidth", "ALERT",
               FALSE, q)

\* The bandwidth is set between state changes of the ENSM.
NextBw == SetState \/ PinDrive \/ RfBandwidth

SpecBw == Init /\ [][NextBw]_vars

\* C25: the bracket of ad9361_update_rf_bandwidth is unwound on every exit
\* path: also when a filter calibration or the quadrature calibration fails,
\* the tracking loops are re-programmed with their configured enables and
\* restore has run after them when the call returns.
C25_BandwidthBracketUnwound ==
    [][last'.op = "update_rf_bandwidth" =>
          /\ TrackingAsConfigured'
          /\ UnwoundInLog(wlog')]_vars


----------------------------------------------------------------------------
(* Commits of the PLL nodes, with and without a recalibration due          *)

CommitParents == {40000000}

\* A carrier within cal_threshold_freq of 0, one far from it, an illegal one.
CommitCarriers == {Hz(70, 0), Hz(2400, 0), Hz(6000, 2)}

CommitRound == RfpllRoundOf(CommitParents, CommitCarriers)

RfpllCommit == RfpllSetWith(BOOLEAN)

\* The PLL nodes of the commits: the other synthesizer may have a fast-lock
\* profile in use as well.
CommitNodes ==
    PllNodes \cup {[n EXCEPT !.profile_other = 2] :
                       n \in {p \in PllNodes : p.source \in RfpllSources}}

InitCommit == InitDevice /\ clk \in CommitNodes

NextCommit == BbpllRound \/ BbpllSet \/ CommitRound \/ RfpllCommit \/ CalcReturn

SpecCommit == InitCommit /\ [][NextCommit]_vars

\* log[i] is a write of the register reg.
IsWrite(log, i, reg) == log[i][1] = "w" /\ log[i][2] = reg

\* The writes of a log that arm a calibration engine.
Arms(log) == {i \in 1..Len(log) : IsWrite(log, i, "REG_CALIBRATION_CTRL")}

\* At position i of the log ad9361_tracking_control has just disabled the
\* three tracking loops: baseband DC and RF DC in REG_DC_OFFSET_CONFIG2,
\* quadrature in REG_CALIBRATION_CONFIG_1.
TrackingOffAt(log, i) ==
    /\ i > 3
    /\ IsWrite(log, i, "REG_CALIBRATION_CONFIG_1")
    /\ log[i][3] \cap {"ENABLE_TRACKING_MODE_CH1", "ENABLE_TRACKING_MODE_CH2"} = {}
    /\ IsWrite(log, i - 3, "REG_DC_OFFSET_CONFIG2")
    /\ log[i - 3][3] \cap {"ENABLE_BB_DC_OFFSET_TRACKING",
                           "ENABLE_RF_OFFSET_TRACKING"} = {}

\* The read of REG_STATE that opens ad9361_ensm_force_state.
ForceAt(log, i) == log[i] = <<"r", "REG_STATE", {}>>

\* The log is that of a guarded bracket around a calibration: tracking
\* disabled, force, at least one calibration armed, and the unwinding
\* (tracking re-programmed, then restore) at the end.
IsBracket(log) ==
    /\ UnwoundInLog(log)
    /\ \E t, f, c \in 1..Len(log) :
          /\ t < f /\ f < c /\ c < LastCfgRead(log) - 6
          /\ TrackingOffAt(log, t)
          /\ ForceAt(log, f)
          /\ c \in Arms(log)

\* The log of a commit holds a call of ad9361_do_calib_run that is a bracket.
BracketRuns(log) ==
    \E i \in 1..Len(log) :
        /\ log[i][1] = "call"
        /\ log[i][2] = "ad9361_do_calib_run"
        /\ IsBracket(log[i][3])

\* A step that commits a rate on a PLL node: set_rate has written registers.
PllCommitted ==
    /\ calc.op = "round_rate"
    /\ calc'.op = "set_rate"
    /\ clk.source \in {"BBPLL_CLK"} \cup RfpllSources
    /\ Writes(wlog') # {}

C27_ArmedInsideBracket ==
    [][last'.op = "do_calib_run" =>
          /\ UnwoundInLog(wlog')
          /\ \A c \in Arms(wlog') :
                /\ \E t, f \in 1..c :
                      /\ t < f /\ f < c
                      /\ TrackingOffAt(wlog', t)
                      /\ ForceAt(wlog', f)
                /\ c < LastCfgRead(wlog') - 6
                /\ \A j \in c..(LastCfgRead(wlog') - 1) : ~IsWrite(wlog', j, CFG)]_vars

\* A bracket entered outside ALERT, so that force has written, has armed
\* the engine for the whole phase search.
C27_Witness ==
    /\ last.op = "do_calib_run"
    /\ last.q.search = "ok"
    /\ ~last.q.conv
    /\ Cardinality(Arms(wlog)) >= 4
    /\ \E j \in 1..Len(wlog) :
          /\ IsWrite(wlog, j, CFG)
          /\ \A c \in Arms(wlog) : j < c
    /\ dev_ensm_state \in {"RX", "FDD"}


-----------------------------------------------------------------------------
(* Properties of the scaler nodes' set_rate and round_rate                 *)

\* The mult/div pairs the tests of ad9361_set_clk_scaler let through for a
\* node kind, truncations included: the reference scalers look at the low
\* four bits of each, the ADC divider at the low eight bits of div.
LegalMuldiv(source, mult, div) ==
    CASE source \in RefclkSources ->
             <<mult % 16, div % 16>> \in {<<1, 1>>, <<1, 2>>, <<1, 4>>, <<2, 1>>}
      [] source = "ADC_CLK" -> mult = 1 /\ div % 256 \in 2..127
      [] source \in {"R2_CLK", "T2_CLK"} -> mult = 1 /\ div \in 1..3
      [] source \in {"RX_SAMPL_CLK", "TX_SAMPL_CLK"} ->
             mult = 1 /\ div \in {1, 2, 4}
      [] OTHER -> mult = 1 /\ div \in 1..2

\* A step that is a set_rate on a scaler node.
ScalerSetStep ==
    /\ calc.op = "round_rate"
    /\ calc'.op = "set_rate"
    /\ clk.source \in ScalerSources

C30_CachedMuldivLegal ==
    clk.source \in ScalerSources => LegalMuldiv(clk.source, clk.mult, clk.div)

-----------------------------------------------------------------------------
(* Scaler calls with a rate of zero                                        *)

\* The division of DIV_ROUND_CLOSEST is by the parent rate when the rate is
\* at least the parent rate, by the rate otherwise.
DivByZero(rate, parent_rate) ==
    IF rate >= parent_rate THEN parent_rate = 0 ELSE rate = 0

\* What a division by zero may do: stop the program (trap), or yield a
\* quotient q of zero or of all ones (-1 as a 32-bit pattern).
DivZeroOutcomes == [trap : BOOLEAN, q : {0, -1}]

\* The mult/div of both calls, q being the quotient of a division by zero.
FactorMuldivUB(node, rate, parent_rate, q) ==
    IF rate >= parent_rate
    THEN SetMuldiv(node, IF parent_rate = 0 THEN q
                         ELSE DivRoundClosest(rate, parent_rate), 1)
    ELSE LET d == IF rate = 0 THEN q ELSE DivRoundClosest(parent_rate, rate)
         IN  SetMuldiv(node, 1, IF d = 0 THEN 1 ELSE d)

\* Rates and parent rates of these calls.
ZeroRates == {0, 30720000, 61440000}

ZeroParents == {0, 61440000}

\* round_rate (set = FALSE) or set_rate (set = TRUE) on a scaler node.
ZeroCall(set) ==
    /\ calc = NoCalc
    /\ \E rate \in ZeroRates, prate \in ZeroParents, out \in DivZeroOutcomes :
          LET divz == DivByZero(rate, prate)
              op   == IF set THEN "set_rate" ELSE "round_rate"
          IN  /\ ~divz => out = [trap |-> FALSE, q |-> 0]
              /\ out.trap => out.q = 0
              /\ IF out.trap
                 THEN /\ calc' = [op |-> op, rate |-> rate, prate |-> prate,
                                  divz |-> divz, trap |-> TRUE, ret |-> Unset]
                      /\ UNCHANGED <<clk, wlog>>
                 ELSE \E s \in {SetClkScaler(FactorMuldivUB(clk, rate, prate, out.q),
                                             set, clk.bypass_fir, -1)} :
                         /\ clk' = s.node
                         /\ wlog' = s.log
                         /\ calc' = [op |-> op, rate |-> rate, prate |-> prate,
                                     divz |-> divz, trap |-> FALSE,
                                     ret |-> s.ret]
    /\ UNCHANGED <<phy, regs, dev_ensm_state, last, cal>>

ZeroRoundRate == ZeroCall(FALSE)

ZeroSetRate == ZeroCall(TRUE)

InitZero == InitDevice /\ clk \in ScalerNodes

NextZero == ZeroRoundRate \/ ZeroSetRate \/ CalcReturn

SpecZero == InitZero /\ [][NextZero]_vars

\* C29: a scaler call with a rate or a parent rate of zero divides by no
\* zero and leaves a divisor of 1.
C29_NoDivisionByZero ==
    (calc # NoCalc /\ (calc.rate = 0 \/ calc.prate = 0)) =>
        ~calc.divz /\ clk.div = 1


-----------------------------------------------------------------------------
(* Order of the register accesses of the PLL commits                       *)

\* The positions in a clock log of the writes to one of the registers regs.
ClkWritesTo(log, rs) ==
    {i \in 1..Len(log) : log[i][1] = "w" /\ log[i][2][1] \in rs}

\* The positions in a clock log of the calls of the function name.
ClkCallsOf(log, name) ==
    {i \in 1..Len(log) : log[i][1] = "call" /\ log[i][2] = name}

\* Every position of the set a is before every position of the set b, and
\* neither set is empty.
AllBefore(a, b) ==
    a # {} /\ b # {} /\ \A i \in a : \A j \in b : i < j

BbFreqWords ==
    {"REG_INTEGER_BB_FREQ_WORD", "REG_FRACT_BB_FREQ_WORD_3",
     "REG_FRACT_BB_FREQ_WORD_2", "REG_FRACT_BB_FREQ_WORD_1"}

\* The positions of the writes that start the BBPLL calibration.
BbCalStarts(log) ==
    {i \in ClkWritesTo(log, {"REG_SDM_CTRL_1"}) : "INIT_BB_FO_CAL" \in log[i][3]}

\* C31: ad9361_bbpll_set_rate writes the charge-pump current and the loop
\* filter before the integer and fractional words, waits for BBPLL_LOCK only
\* after the words and the calibration start have been written, and returns
\* -ETIMEDOUT when the lock bit does not come up.
C31_BbpllProgramOrder ==
    (calc.op = "set_rate" /\ clk.source = "BBPLL_CLK") =>
        /\ AllBefore(ClkWritesTo(wlog, {"REG_CP_CURRENT", "REG_LOOP_FILTER_3"}),
                     ClkWritesTo(wlog, BbFreqWords))
        /\ Cardinality(ClkWritesTo(wlog, BbFreqWords)) = 4
        /\ AllBefore(ClkWritesTo(wlog, BbFreqWords) \cup BbCalStarts(wlog),
                     ClkCallsOf(wlog, "ad9361_check_cal_done"))
        /\ BbCalStarts(wlog) # {}
        /\ (~calc.locked => calc.set_ret = ETIMEDOUT)
        /\ (calc.locked => calc.set_ret = OK)

\* A commit of the baseband PLL during which the lock bit stayed low.
C31_Witness ==
    /\ calc.op = "set_rate"
    /\ clk.source = "BBPLL_CLK"
    /\ ~calc.locked
    /\ calc.set_ret = ETIMEDOUT
    /\ ClkCallsOf(wlog, "ad9361_check_cal_done") # {}

\* The registers that hold the words and the VCO divider of a synthesizer.
RfFreqWords == {"REG_RX_FRACT_BYTE_2", "REG_TX_FRACT_BYTE_2", "REG_RFPLL_DIVIDERS"}

\* A step that is a set_rate on an RF synthesizer node.
RfpllSetStep ==
    /\ calc.op = "round_rate"
    /\ calc'.op = "set_rate"
    /\ clk.source \in RfpllSources

\* The positions in a clock log of the calls of ad9361_fastlock_prepare that
\* leave fast-lock mode on the synthesizer side ("RX" or "TX").
Teardowns(log, side) ==
    {i \in ClkCallsOf(log, "ad9361_fastlock_prepare") :
        \E j \in 1..Len(log[i][3]) :
            log[i][3][j] = <<"w", <<"REG_" \o side \o "_FAST_LOCK_SETUP", 1>>, {}>>}

\* C32: when ad9361_rfpll_set_rate returns, with any result, the node's
\* synthesizer has no fast-lock profile in use and the other synthesizer's
\* index is as before; where a profile was in use the writes that leave
\* fast-lock mode are in the log, before every write of a frequency word or
\* of the VCO divider.
C32_FastlockTornDownFirst ==
    [][RfpllSetStep =>
          /\ clk'.profile = 0
          /\ clk'.profile_other = clk.profile_other
          /\ LET t == Teardowns(wlog', IF clk.source = "TX_RFPLL" THEN "TX" ELSE "RX")
             IN  /\ (clk.profile # 0) <=> (t # {})
                 /\ \A i \in t : \A j \in ClkWritesTo(wlog', RfFreqWords) : i < j]_vars

\* A commit that failed on a synthesizer that was in fast-lock mode while the
\* other synthesizer has a profile in use.
C32_Witness ==
    /\ calc.op = "set_rate"
    /\ clk.source \in RfpllSources
    /\ calc.set_ret = EINVAL
    /\ clk.profile = 0
    /\ clk.profile_other = 2
    /\ ClkCallsOf(wlog, "ad9361_fastlock_prepare") # {}

-----------------------------------------------------------------------------
(* The VCO of the RF synthesizers                                          *)

\* A set_rate on an RF synthesizer node has got past the range check.
RfpllAccepted ==
    /\ calc.op = "set_rate"
    /\ clk.source \in RfpllSources
    /\ calc.set_ret # EINVAL

\* C33: for every carrier ad9361_rfpll_set_rate accepts, the VCO frequency is
\* above MIN_VCO_FREQ_HZ and at most twice that, it is the carrier doubled
\* vco_div + 1 times, and the divider written to REG_RFPLL_DIVIDERS and kept
\* in the node is that vco_div, which is not negative.
C33_VcoInRange ==
    RfpllAccepted =>
        \E f \in {ad9361_from_clk(calc.rate)} :
        \E c \in {CalcRfpllDivder(f, calc.prate)} :
            /\ c.ret = OK
            /\ ~U64Le(c.vco_freq, MIN_VCO_FREQ_HZ)
            /\ U64Le(c.vco_freq, U64Mul(MIN_VCO_FREQ_HZ, 2))
            /\ c.vco_div >= 0
            /\ c.vco_freq = U64Mul(f, 2^(c.vco_div + 1))
            /\ ClkWritesTo(wlog, {"REG_RFPLL_DIVIDERS"}) # {}
            /\ \A i \in ClkWritesTo(wlog, {"REG_RFPLL_DIVIDERS"}) :
                  wlog[i][3] = c.vco_div
            /\ clk.vco_div = c.vco_div

\* The highest carrier has been committed: one doubling, divider 0.
C33_Witness ==
    /\ RfpllAccepted
    /\ ad9361_from_clk(calc.rate) = MAX_CARRIER_FREQ_HZ
    /\ clk.vco_div = 0
    /\ calc.set_ret = OK

\* The carrier is outside [MIN_CARRIER_FREQ_HZ, MAX_CARRIER_FREQ_HZ].
CarrierOutOfRange(f) ==
    ~U64Le(f, MAX_CARRIER_FREQ_HZ) \/ ~U64Le(MIN_CARRIER_FREQ_HZ, f)

\* C34: round_rate and set_rate of an RF synthesizer called with a rate whose
\* carrier is outside the legal range return -EINVAL; such a set_rate does
\* not program the VCO tables, writes no frequency word and no VCO divider,
\* and does not wait for the lock bit.
C34_OutOfRangeRejected ==
    (calc.op \in {"round_rate", "set_rate"} /\ clk.source \in RfpllSources
        /\ CarrierOutOfRange(ad9361_from_clk(calc.rate))) =>
        /\ calc.round_ret = EINVAL
        /\ calc.op = "set_rate" =>
              /\ calc.set_ret = EINVAL
              /\ ClkWritesTo(wlog, RfFreqWords) = {}
              /\ ClkCallsOf(wlog, "ad9361_rfpll_vco_init") = {}
              /\ ClkCallsOf(wlog, "ad9361_check_cal_done") = {}

\* A commit of a carrier below the range has been refused.
C34_Witness ==
    /\ calc.op = "set_rate"
    /\ clk.source \in RfpllSources
    /\ ~U64Le(MIN_CARRIER_FREQ_HZ, ad9361_from_clk(calc.rate))
    /\ calc.set_ret = EINVAL

-----------------------------------------------------------------------------
(* The automatic TX quadrature calibration of ad9361_rfpll_set_rate        *)

\* -a in 64 bits.
Neg64(a) == U64Sub(U64(0), a)

\* What abs() may be in the build: the int abs(int) of <stdlib.h>, which the
\* file includes and which sees the low 32 bits of its argument, or a macro
\* of a header that works in the 64 bits of its argument.
AbsKinds == {"int", "int64"}

\* abs(d) for the 64-bit pattern d.
AbsOf(kind, d) ==
    IF kind = "int64"
    THEN IF d[16] >= 8 THEN Neg64(d) ELSE d
    ELSE LET lo == U64Low32(d)
         IN  IF lo[8] >= 8 THEN U64Low32(Neg64(lo)) ELSE lo

\* The test of ad9361_rfpll_set_rate apart from the node kind: auto_cal_en
\* and abs(last_tx_quad_cal_freq - f) > cal_threshold_freq.
QuadCalDue(p, f, kind) ==
    /\ p.auto_cal_en
    /\ ~U64Le(AbsOf(kind, U64Sub(p.last_tx_quad_cal_freq, f)),
              U64(p.cal_threshold_freq))

\* Legal carriers: 1 GHz, the same moved by half the threshold, by the
\* threshold, by 1.4 GHz and by 2^32 Hz.
RecalCarriers ==
    {Hz(1000, 0), Hz(1050, 0), Hz(1100, 0), Hz(2400, 0), Hz(5294, 967296)}

RecalRound == RfpllRoundOf(CommitParents, RecalCarriers)

\* ad9361_rfpll_set_rate with the arguments of the round_rate before it, the
\* recalibration decided by the test of the code.
RecalSet ==
    /\ calc.op = "round_rate"
    /\ clk.source \in RfpllSources
    /\ \E locked \in BOOLEAN, kind \in AbsKinds :
       \E recal \in {QuadCalDue(phy, ad9361_from_clk(calc.rate), kind)} :
       \E q \in IF recal THEN CommitScenarios ELSE {NoQ} :
       \E s \in {RfpllSetRate(Machine, clk, calc.rate, calc.prate,
                              [locked |-> locked, recal |-> recal, q |-> q])} :
           /\ clk' = s.node
           /\ wlog' = s.log
           /\ calc' = [calc EXCEPT !.op = "set_rate", !.set_ret = s.ret,
                                   !.recal = recal, !.locked = locked]
           /\ phy' = s.m.phy
           /\ regs' = s.m.regs
           /\ dev_ensm_state' = s.m.hw
    /\ UNCHANGED <<last, cal>>

\* The device during ad9361_setup, where auto_cal_en is still clear, or
\* after it; an RF synthesizer node outside fast-lock mode.
InitRecal ==
    /\ \E c \in Configs : \E on \in BOOLEAN :
          LET m == SetupEnd(c.pd, c.agc, c.trk)
          IN  /\ phy = [m.phy EXCEPT !.auto_cal_en = on]
              /\ regs = m.regs
              /\ dev_ensm_state = m.hw
              /\ wlog = m.log
              /\ last = [op |-> "setup",
                         state |-> IF c.pd.fdd THEN "FDD" ELSE "RX",
                         pinctrl |-> c.pd.ensm_pin_ctrl, q |-> NoQ, ret |-> m.ret]
    /\ cal = CalIdle
    /\ calc = NoCalc
    /\ clk \in {n \in PllNodes : n.source \in RfpllSources /\ n.profile = 0}

NextRecal == RecalRound \/ RecalSet \/ CalcReturn

SpecRecal == InitRecal /\ [][NextRecal]_vars

\* The carrier f is more than the threshold away from the frequency of the
\* last quadrature calibration.
MovedPastThreshold(p, f) ==
    LET a == p.last_tx_quad_cal_freq
        d == IF U64Le(a, f) THEN U64Sub(f, a) ELSE U64Sub(a, f)
    IN  ~U64Le(d, U64(p.cal_threshold_freq))

\* C35: a set_rate of an RF synthesizer that gets past its range check runs
\* the quadrature calibration exactly when the node is the TX synthesizer,
\* auto_cal_en is set and the new carrier is more than cal_threshold_freq
\* away from last_tx_quad_cal_freq, and last_tx_quad_cal_freq becomes the new
\* carrier exactly when the calibration has run.
C35_RecalIffMoved ==
    [][(RfpllSetStep /\ calc'.set_ret # EINVAL) =>
          LET f   == ad9361_from_clk(calc.rate)
              ran == ClkCallsOf(wlog', "ad9361_do_calib_run") # {}
          IN  /\ ran <=> /\ clk.source = "TX_RFPLL"
                         /\ phy.auto_cal_en
                         /\ MovedPastThreshold(phy, f)
              /\ phy'.last_tx_quad_cal_freq =
                     IF ran THEN f ELSE phy.last_tx_quad_cal_freq]_vars

-----------------------------------------------------------------------------
(* ad9361_tx_quad_calib and ad9361_tx_quad_phase_search in full            *)

\* The convergence bits of REG_QUAD_CAL_STATUS_TX1, in its lowest two bits.
QuadStatusBits == {"TX1_LO_CONV", "TX1_SSB_CONV"}

\* What a read of REG_QUAD_CAL_STATUS_TX1 may find: any of the two bits and
\* the convergence count above them.
QuadStatusValues == SUBSET (QuadStatusBits \cup {"TX1_CONVERGENCE_COUNT"})

\* ad9361_spi_readf for a mask that starts at bit 0: the bits of the mask.
SpiReadfLow(val, mask) == val \cap mask

\* QuadConverged that is content with one of the two bits.
QuadConvergedEither(val) == val # {}

\* The test of ad9361_tx_quad_calib on the field it has read:
\* val == (TX1_LO_CONV | TX1_SSB_CONV), on which no phase search is made.
QuadConverged(val) == val = QuadStatusBits

\* ad9361_do_calib_run for TX_QUAD_CAL where the status register reads
\* status after the first run.
QuadCalib ==
    /\ calc = NoCalc
    /\ \E status \in QuadStatusValues, run1 \in BOOLEAN,
          search \in {"ok", "scan_timeout", "confirm_timeout"} :
          LET q == [NoQ EXCEPT !.cal = "TX_QUAD_CAL", !.run1 = run1,
                               !.search = search,
                               !.conv = QuadConverged(SpiReadfLow(status,
                                                                  QuadStatusBits))]
          IN  /\ search # "ok" => ~q.conv
              /\ \E m \in {DoCalibRun(Machine, q)} :
                    /\ phy' = m.phy
                    /\ regs' = m.regs
                    /\ dev_ensm_state' = m.hw
                    /\ wlog' = m.log
                    /\ last' = [op |-> "do_calib_run", state |-> "ALERT",
                                pinctrl |-> FALSE, q |-> q, ret |-> m.ret]
              /\ calc' = [op |-> "tx_quad_calib", status |-> status]
    /\ UNCHANGED <<cal, clk>>

\* The value written to REG_QUAD_CAL_NCO_FREQ_PHASE_OFFSET for the offset i.
OffsetBit(i) == "RX_NCO_PHASE_OFFSET(" \o ToString(i) \o ")"

OffsetWord(i) == {"RX_NCO_FREQ(rxnco_word)", OffsetBit(i)}

\* ScanRecord that keeps the result at index i only.
ScanRecordOnce(field, i, passed) ==
    [field EXCEPT ![i + 1] = IF passed THEN 0 ELSE 1]

\* field[i] = field[i + 32] = !(both bits set); field[i] of the code is
\* field[i + 1] here.
ScanRecord(field, i, passed) ==
    [field EXCEPT ![i + 1] = IF passed THEN 0 ELSE 1,
                  ![i + 1 + PhaseOffsets] = IF passed THEN 0 ELSE 1]

\* SelectedOffset that takes the offset after the end of the run.
SelectedOffsetRunEnd(opt) == (opt.start + opt.ret) % PhaseOffsets

\* (start + ret / 2) & 0x1F for what ad9361_find_opt has given.
SelectedOffset(opt) == (opt.start + opt.ret \div 2) % PhaseOffsets

\* The loop of ad9361_tx_quad_phase_search from <<m, i, field, hw>>: hw.pass[i]
\* says that both bits are set after the run at offset i, hw.tmo is the
\* offset whose run times out (-1: none).
RECURSIVE PhaseScan(_)
PhaseScan(st) ==
    LET m == st[1]  i == st[2]  field == st[3]  hw == st[4]
        m1 == SpiWrite(m, "REG_QUAD_CAL_NCO_FREQ_PHASE_OFFSET", OffsetWord(i))
        m2 == RunCalibration(m1, "TX_QUAD_CAL", hw.tmo # i)
        m3 == SpiRead(m2, "REG_QUAD_CAL_STATUS_TX1")
    IN  IF i >= PhaseOffsets
        THEN [m |-> m, field |-> field, done |-> TRUE]
        ELSE IF IsErr(m2.ret)
        THEN [m |-> m2, field |-> field, done |-> FALSE]
        ELSE PhaseScan(<<m3, i + 1, ScanRecord(field, i, hw.pass[i]), hw>>)

\* An entry of field[] that has not been written; it is never read.
FieldUnset == 255

\* ad9361_tx_quad_phase_search: the scan, the choice of the offset and the
\* two runs at that offset (hw.c1, hw.c2: they finish in time).  sel is the
\* offset chosen, -1 when the scan has been left early.
TxQuadPhaseSearchRuns(m, hw) ==
    LET s   == PhaseScan(<<m, 0, [k \in 1..(2 * PhaseOffsets) |-> FieldUnset], hw>>)
        sel == SelectedOffset(FindOpt(s.field))
        m1  == SpiWrite(s.m, "REG_QUAD_CAL_NCO_FREQ_PHASE_OFFSET", OffsetWord(sel))
        m2  == RunCalibration(m1, "TX_QUAD_CAL", hw.c1)
        m3  == RunCalibration(m2, "TX_QUAD_CAL", hw.c2)
    IN  IF ~s.done
        THEN [m |-> s.m, field |-> s.field, sel |-> -1]
        ELSE [m |-> m3, field |-> s.field, sel |-> sel]

\* The offsets that pass in one run of l offsets from s on, around the circle.
CircRun(s, l) == [i \in 0..(PhaseOffsets - 1) |-> ((i - s) % PhaseOffsets) < l]

\* What the hardware does during a search: one passing run of any length
\* anywhere on the circle, or two runs; a scan run that times out; the two
\* last runs in time or not.
SearchScenarios ==
    [pass : {CircRun(s, l) : s \in 0..(PhaseOffsets - 1), l \in 0..PhaseOffsets},
     tmo : {-1}, c1 : {TRUE}, c2 : {TRUE}]
    \cup
    [pass : {CircRun(3, 7), CircRun(30, 5)}, tmo : {-1}, c1 : BOOLEAN, c2 : BOOLEAN]
    \cup
    [pass : {[i \in 0..(PhaseOffsets - 1) |-> CircRun(s1, l1)[i] \/ CircRun(s2, l2)[i]] :
                s1 \in {0, 5, 30}, l1 \in {1, 3, 4}, s2 \in {10, 20}, l2 \in {1, 3, 6}},
     tmo : {-1}, c1 : {TRUE}, c2 : {TRUE}]
    \cup
    [pass : {CircRun(3, 7)}, tmo : {0, 17, 31}, c1 : {TRUE}, c2 : {TRUE}]

PhaseSearch ==
    /\ calc = NoCalc
    /\ \E hw \in SearchScenarios :
       \E r \in {TxQuadPhaseSearchRuns(Machine, hw)} :
           /\ phy' = r.m.phy
           /\ regs' = r.m.regs
           /\ dev_ensm_state' = r.m.hw
           /\ wlog' = r.m.log
           /\ calc' = [op |-> "phase_search", hw |-> hw, field |-> r.field,
                       sel |-> r.sel, ret |-> r.m.ret]
    /\ UNCHANGED <<last, cal, clk>>

\* The call has returned; the record of its accesses is laid aside.
QuadReturn ==
    /\ calc # NoCalc
    /\ calc' = NoCalc
    /\ wlog' = <<>>
    /\ UNCHANGED <<phy, regs, dev_ensm_state, last, cal, clk>>

NextQuad == QuadCalib \/ PhaseSearch \/ QuadReturn

SpecQuad == InitCal /\ [][NextQuad]_vars

\* The log has a write of the phase search.
Searched(log) ==
    \E i \in 1..Len(log) :
        /\ IsWrite(log, i, "REG_QUAD_CAL_NCO_FREQ_PHASE_OFFSET")
        /\ log[i][3] = {"RX_NCO_PHASE_OFFSET(i)"}

\* C36: ad9361_tx_quad_calib goes on to the phase search exactly when, in the
\* status read after its first run, TX1_LO_CONV or TX1_SSB_CONV is clear;
\* with both set there is no search.
C36_SearchIffNotConverged ==
    calc.op = "tx_quad_calib" =>
        (Searched(wlog) <=> ("TX1_LO_CONV" \notin calc.status
                              \/ "TX1_SSB_CONV" \notin calc.status))

\* The first run left one of the two bits clear and the search was made.
C36_Witness ==
    /\ calc.op = "tx_quad_calib"
    /\ "TX1_LO_CONV" \in calc.status
    /\ "TX1_SSB_CONV" \notin calc.status
    /\ Searched(wlog)

\* The writes of a log, in order.
WritesOf(log) == SelectSeq(log, LAMBDA e : e[1] = "w")

ArmWrite == <<"w", "REG_CALIBRATION_CTRL", {"TX_QUAD_CAL"}>>

\* The writes of a scan of the offsets 0 .. n - 1: each offset, then one run.
ScanWrites(n) ==
    [k \in 1..(2 * n) |->
        IF k % 2 = 1
        THEN <<"w", "REG_QUAD_CAL_NCO_FREQ_PHASE_OFFSET", OffsetWord((k - 1) \div 2)>>
        ELSE ArmWrite]

\* The array a complete scan leaves: the results of the 32 offsets, twice.
Doubled(pass) ==
    [k \in 1..(2 * PhaseOffsets) |->
        IF pass[(k - 1) % PhaseOffsets] THEN 0 ELSE 1]

\* C37: a phase search in which no scan run times out writes the offsets
\* 0..31 in ascending order with one calibration run after each, has each
\* result at index i and i + 32, then writes the offset (start + length / 2)
\* mod 32 of the longest passing run, runs the calibration twice and returns
\* what the second run returns; one in which the run at offset t times out
\* makes no access after that run and returns -ETIMEDOUT.
C37_SearchSequence ==
    calc.op = "phase_search" =>
        IF calc.hw.tmo = -1
        THEN /\ calc.field = Doubled(calc.hw.pass)
             /\ \E o \in {FindOpt(Doubled(calc.hw.pass))} :
                   WritesOf(wlog) =
                       ScanWrites(PhaseOffsets) \o
                       << <<"w", "REG_QUAD_CAL_NCO_FREQ_PHASE_OFFSET",
                            OffsetWord((o.start + o.ret \div 2) % 32)>>,
                          ArmWrite, ArmWrite >>
             /\ calc.ret = IF calc.hw.c2 THEN OK ELSE ETIMEDOUT
        ELSE /\ WritesOf(wlog) = ScanWrites(calc.hw.tmo + 1)
             /\ Len(wlog) = 4 * calc.hw.tmo + 3
             /\ wlog[Len(wlog)][1] = "r"
             /\ wlog[Len(wlog)][2] = "REG_CALIBRATION_CTRL"
             /\ calc.ret = ETIMEDOUT

\* A complete search whose first run at the chosen offset timed out and whose
\* second did not.
C37_Witness ==
    /\ calc.op = "phase_search"
    /\ calc.hw.tmo = -1
    /\ ~calc.hw.c1
    /\ calc.hw.c2
    /\ calc.ret = OK
    /\ Len(WritesOf(wlog)) = 2 * PhaseOffsets + 3

\* C38: when at least one offset passed in a complete phase search, the
\* offset written at its end is one that passed.
C38_SelectedOffsetPassed ==
    (calc.op = "phase_search" /\ calc.hw.tmo = -1
        /\ \E i \in 0..(PhaseOffsets - 1) : calc.hw.pass[i]) =>
        /\ calc.sel \in 0..(PhaseOffsets - 1)
        /\ calc.hw.pass[calc.sel]
        /\ WritesOf(wlog)[2 * PhaseOffsets + 1][3] = OffsetWord(calc.sel)

\* The passing run went around from offset 31 to offset 0.
C38_Witness ==
    /\ calc.op = "phase_search"
    /\ calc.hw.tmo = -1
    /\ calc.hw.pass[PhaseOffsets - 1]
    /\ calc.hw.pass[0]
    /\ \E i \in 0..(PhaseOffsets - 1) : ~calc.hw.pass[i]
    /\ calc.sel \in {0, PhaseOffsets - 1}

-----------------------------------------------------------------------------
(* The end of ad9361_ensm_set_state: the gain-path reset, the rejection    *)

THRESH == "REG_SMALL_LMT_OVERLOAD_THRESH"

ResetBits == {"FORCE_PD_RESET_RX1", "FORCE_PD_RESET_RX2"}

\* The reset bits of the receive chains that are in manual-gain mode.
MgcResetBits(p) ==
    (IF p.agc_mode[1] = MGC THEN {"FORCE_PD_RESET_RX1"} ELSE {})
    \cup (IF p.agc_mode[2] = MGC THEN {"FORCE_PD_RESET_RX2"} ELSE {})

ThreshWrites(log) == {i \in 1..Len(log) : IsWrite(log, i, THRESH)}

\* C39: a set_state that commits RX or FDD while a receive chain is in
\* manual-gain mode ends with: the configuration write with FORCE_RX_ON, a
\* read of the threshold register, a write of it with the reset bits of
\* exactly the chains in manual-gain mode, a write of it with no reset bit;
\* the tracked state is the new one after that.  Every other set_state
\* writes nothing to the threshold register.
C39_MgcResetPulse ==
    [][last'.op = "set_state" =>
          LET n == Len(wlog')
          IN  IF /\ last'.ret = OK
                 /\ last'.state \in {"RX", "FDD"}
                 /\ MgcResetBits(phy) # {}
              THEN /\ n >= 4
                   /\ IsWrite(wlog', n - 3, CFG)
                   /\ "FORCE_RX_ON" \in wlog'[n - 3][3]
                   /\ wlog'[n - 2] = <<"r", THRESH, {}>>
                   /\ ThreshWrites(wlog') = {n - 1, n}
                   /\ wlog'[n - 1][3] \cap ResetBits = MgcResetBits(phy)
                   /\ wlog'[n][3] \cap ResetBits = {}
                   /\ wlog'[n - 1][3] \ ResetBits = wlog'[n][3]
                   /\ phy'.curr_ensm_state = last'.state
              ELSE ThreshWrites(wlog') = {}]_vars

\* RX has been committed with only the first chain in manual-gain mode, and
\* only its reset bit has been pulsed.
C39_Witness ==
    /\ last.op = "set_state" /\ last.state = "RX" /\ last.ret = OK
    /\ phy.curr_ensm_state = "RX"
    /\ phy.agc_mode[1] = MGC /\ phy.agc_mode[2] # MGC
    /\ Len(wlog) >= 4
    /\ wlog[Len(wlog) - 1] = <<"w", THRESH,
                               wlog[Len(wlog)][3] \cup {"FORCE_PD_RESET_RX1"}>>

\* C40: a set_state that is rejected as an illegal transition has written no
\* register and has left the tracked state as it was.
C40_RejectedLeavesDeviceUnchanged ==
    [][(last'.op = "set_state" /\ last'.ret = EINVAL) =>
          /\ WritesOf(wlog') = <<>>
          /\ regs' = regs
          /\ phy'.curr_ensm_state = phy.curr_ensm_state]_vars

\* The same for the requests made with a tracked state other than SLEEP.
C40_RejectedWhenAwake ==
    [][(last'.op = "set_state" /\ last'.ret = EINVAL
          /\ phy.curr_ensm_state # "SLEEP") =>
          /\ wlog' = <<>>
          /\ regs' = regs
          /\ dev_ensm_state' = dev_ensm_state
          /\ phy' = phy]_vars

====
